---- MODULE Spec2Model ----
(***************************************************************************)
(* The scene builder (VideoContext) and the evaluator (renderSceneAtTime)  *)
(* of src/services/engine.ts, second (3D) definition of the file.          *)
(*                                                                         *)
(* Numbers are exact rationals <<n, d>> with d > 0 in lowest terms; NaN is *)
(* <<0, 0>> and the JavaScript value undefined, where a numeric field may  *)
(* hold it, is <<0, -1>>.  Angles are kept in quarter turns (pi/2 = 1), so *)
(* that sine and cosine are exact on the angles the model produces.        *)
(* Strings that the code indexes (text) are sequences of characters.       *)
(***************************************************************************)
EXTENDS Integers, Sequences, FiniteSets, TLC

\* ------------------------------------------------------------------------
\* Numbers
\* ------------------------------------------------------------------------
NaN == <<0, 0>>
Undefined == <<0, -1>>

Abs(n) == IF n < 0 THEN -n ELSE n

RECURSIVE GCD(_, _)
GCD(a, b) == IF b = 0 THEN a ELSE GCD(b, a % b)

Norm(n, d) ==
    IF d = 0 THEN NaN
    ELSE LET g == GCD(Abs(n), Abs(d))
             s == IF d < 0 THEN -1 ELSE 1
         IN  <<(s * n) \div g, (s * d) \div g>>

R(n) == <<n, 1>>
Half == <<1, 2>>

IsFinite(a) == a[2] > 0
RAdd(a, b) == IF IsFinite(a) /\ IsFinite(b) THEN Norm(a[1] * b[2] + b[1] * a[2], a[2] * b[2]) ELSE NaN
RSub(a, b) == IF IsFinite(a) /\ IsFinite(b) THEN Norm(a[1] * b[2] - b[1] * a[2], a[2] * b[2]) ELSE NaN
RMul(a, b) == IF IsFinite(a) /\ IsFinite(b) THEN Norm(a[1] * b[1], a[2] * b[2]) ELSE NaN
RLt(a, b) == IsFinite(a) /\ IsFinite(b) /\ a[1] * b[2] < b[1] * a[2]
RLe(a, b) == IsFinite(a) /\ IsFinite(b) /\ a[1] * b[2] <= b[1] * a[2]
\* rounding up where the code rounds down
RFloor_Ceil(a) == -((-a[1]) \div a[2])

RFloor(a) == a[1] \div a[2]
\* Math.round: the nearest integer, halves towards +infinity; NaN stays NaN
MathRound(a) == IF IsFinite(a) THEN R(RFloor(RAdd(a, Half))) ELSE NaN
\* s + (e - s) * p, the interpolation every numeric rule of the evaluator uses
Lerp(s, e, p) == RAdd(s, RMul(RSub(e, s), p))

\* ------------------------------------------------------------------------
\* Trigonometry on quarter turns
\* ------------------------------------------------------------------------
QuarterOf(q) == CASE q[2] = 1 -> q[1] % 4
CosQ(q) == CASE QuarterOf(q) = 0 -> 1 [] QuarterOf(q) = 1 -> 0 [] QuarterOf(q) = 2 -> -1 [] QuarterOf(q) = 3 -> 0
SinQ(q) == CASE QuarterOf(q) = 0 -> 0 [] QuarterOf(q) = 1 -> 1 [] QuarterOf(q) = 2 -> 0 [] QuarterOf(q) = 3 -> -1
\* Math.atan2(dy, dx) for a vector on one of the axes, in quarter turns
Atan2Q(dy, dx) ==
    CASE dy[1] = 0 /\ dx[1] >= 0 -> R(0)
      [] dy[1] = 0 /\ dx[1] < 0 -> R(2)
      [] dx[1] = 0 /\ dy[1] > 0 -> R(1)
      [] dx[1] = 0 /\ dy[1] < 0 -> R(-1)
\* Math.sqrt(dx*dx + dy*dy) for a vector on one of the axes
Hypot(dx, dy) ==
    CASE dy[1] = 0 -> <<Abs(dx[1]), dx[2]>>
      [] dx[1] = 0 -> <<Abs(dy[1]), dy[2]>>
\* degrees * (Math.PI / 180)
DegToRad(deg) == Norm(deg, 90)
PI2 == R(4)

\* ------------------------------------------------------------------------
\* Strings: String(n), parseFloat
\* ------------------------------------------------------------------------
Digits == <<"0", "1", "2", "3", "4", "5", "6", "7", "8", "9">>
IsDigit(c) == \E i \in 1..10 : Digits[i] = c
DigitValue(c) == (CHOOSE i \in 1..10 : Digits[i] = c) - 1

RECURSIVE NatToString(_)
NatToString(n) ==
    IF n < 10 THEN <<Digits[n + 1]>>
    ELSE Append(NatToString(n \div 10), Digits[(n % 10) + 1])

\* Number.prototype.toString for NaN, integers and halves
NumberToString(a) ==
    CASE a = NaN -> <<"N", "a", "N">>
      [] a[2] = 1 /\ a[1] >= 0 -> NatToString(a[1])
      [] a[2] = 1 /\ a[1] < 0 -> <<"-">> \o NatToString(-a[1])
      [] a[2] = 2 /\ a[1] > 0 -> NatToString(a[1] \div 2) \o <<".", "5">>

RECURSIVE DigitRun(_, _)
\* number of consecutive digits of s from position i on
DigitRun(s, i) == IF i <= Len(s) /\ IsDigit(s[i]) THEN 1 + DigitRun(s, i + 1) ELSE 0

RECURSIVE DigitsValue(_, _, _)
\* value of the n digits of s from position i on
DigitsValue(s, i, n) ==
    IF n = 0 THEN 0 ELSE DigitsValue(s, i, n - 1) * 10 + DigitValue(s[i + n - 1])

RECURSIVE Pow10(_)
Pow10(n) == IF n = 0 THEN 1 ELSE 10 * Pow10(n - 1)

\* parseFloat: optional sign, digits, optional fraction; NaN when no digit leads
ParseFloat(s) ==
    LET neg == Len(s) > 0 /\ s[1] = "-"
        st == IF neg THEN 2 ELSE 1
        n == DigitRun(s, st)
        dot == st + n <= Len(s) /\ s[st + n] = "."
        m == IF dot THEN DigitRun(s, st + n + 1) ELSE 0
        mag == RAdd(R(DigitsValue(s, st, n)), Norm(DigitsValue(s, st + n + 1, m), Pow10(m)))
    IN  IF n = 0 /\ m = 0 THEN NaN
        ELSE IF neg THEN RSub(R(0), mag) ELSE mag

UndefinedText == <<"undefined">>
\* text || fallback
TextOr(text, fallback) == IF text = UndefinedText \/ text = <<>> THEN fallback ELSE text

\* ------------------------------------------------------------------------
\* Easings
\* ------------------------------------------------------------------------
EasingNames == {"linear", "easeInQuad", "easeOutQuad", "easeInOutQuad", "easeInCubic",
                "easeOutCubic", "easeInOutCubic", "easeOutBounce", "easeOutElastic"}

easeOutBounce(t) ==
    LET n1 == <<121, 16>>
        sq(u, c) == RAdd(RMul(n1, RMul(u, u)), c)
    IN  IF RLt(t, <<4, 11>>) THEN RMul(n1, RMul(t, t))
        ELSE IF RLt(t, <<8, 11>>) THEN sq(RSub(t, <<6, 11>>), <<3, 4>>)
        ELSE IF RLt(t, <<10, 11>>) THEN sq(RSub(t, <<9, 11>>), <<15, 16>>)
        ELSE sq(RSub(t, <<21, 22>>), <<63, 64>>)

\* 2^(-10x) sin((10x - 0.75) 2pi/3) + 1 is rational at x = 1/2: 2^-5 sin(150 deg) + 1
easeOutElastic(x) ==
    CASE x = R(0) -> R(0)
      [] x = R(1) -> R(1)
      [] x = Half -> <<65, 64>>

Easings(name, t) ==
    LET one == R(1)
        two == R(2)
    IN  CASE name = "linear" -> t
          [] name = "easeInQuad" -> RMul(t, t)
          [] name = "easeOutQuad" -> RMul(t, RSub(two, t))
          [] name = "easeInOutQuad" ->
               IF RLt(t, Half) THEN RMul(two, RMul(t, t))
               ELSE RAdd(R(-1), RMul(RSub(R(4), RMul(two, t)), t))
          [] name = "easeInCubic" -> RMul(t, RMul(t, t))
          [] name = "easeOutCubic" ->
               LET u == RSub(t, one) IN RAdd(RMul(u, RMul(u, u)), one)
          [] name = "easeInOutCubic" ->
               IF RLt(t, Half) THEN RMul(R(4), RMul(t, RMul(t, t)))
               ELSE LET v == RSub(RMul(two, t), two)
                    IN  RAdd(RMul(RSub(t, one), RMul(v, v)), one)
          [] name = "easeOutBounce" -> easeOutBounce(t)
          [] name = "easeOutElastic" -> easeOutElastic(t)

\* ------------------------------------------------------------------------
\* Objects, actions and the builder (class VideoContext)
\* ------------------------------------------------------------------------
\* Object ids are issued from a counter (generateId draws fresh random
\* strings); 0 stands for "no id" (parentId undefined).  A Map iterates in
\* insertion order, which is the ascending order of the ids issued.
NoId == 0

Put(m, k, v) == [i \in DOMAIN m \cup {k} |-> IF i = k THEN v ELSE m[i]]
Opt(props, key, default) == IF key \in DOMAIN props THEN props[key] ELSE default
\* v || 0 on a numeric field
NumOr0(v) == IF IsFinite(v) THEN v ELSE R(0)
RDiv(a, b) == IF IsFinite(a) /\ IsFinite(b) /\ b[1] # 0 THEN Norm(a[1] * b[2], a[2] * b[1]) ELSE NaN

NumericKeys == {"x", "y", "z", "rotation", "rotationX", "rotationY", "scale", "opacity",
                "shadowBlur", "radius", "width", "height"}
ColorKeys == {"color", "borderColor", "backgroundColor"}
\* typeof v === 'number' for the value v held under key
IsNumberAt(key, v) == key \in NumericKeys /\ v[2] >= 0

NewVideoContext(firstId) ==
    [currentTime |-> 0, actions |-> <<>>, initialObjects |-> <<>>,
     currentObjectStates |-> <<>>, nextId |-> firstId, err |-> FALSE]

\* a thrown Error: the call stops where it is, what was written stays written
Throw(b) == [b EXCEPT !.err = TRUE]

Act(type, objectId, startTime, duration, startValue, endValue, easing) ==
    [type |-> type, objectId |-> objectId, startTime |-> startTime, duration |-> duration,
     startValue |-> startValue, endValue |-> endValue, easing |-> easing]

\* the points of an object that is no polygon: no array
NoPoints == <<[x |-> Undefined, y |-> Undefined]>>
\* Array.isArray on the value held under points
IsArray(v) == v # NoPoints

createBaseObject(type, props) ==
    [type |-> type,
     x |-> props.x,
     y |-> props.y,
     z |-> NumOr0(Opt(props, "z", Undefined)),
     rotation |-> R(0),
     rotationX |-> R(0),
     rotationY |-> R(0),
     scale |-> R(1),
     opacity |-> Opt(props, "opacity", R(1)),
     color |-> Opt(props, "color", "#ffffff"),
     anchor |-> Opt(props, "anchor", [x |-> Half, y |-> Half]),
     shadowBlur |-> R(0),
     shadowColor |-> "transparent",
     parentId |-> NoId,
     text |-> UndefinedText,
     radius |-> Undefined,
     width |-> Undefined,
     height |-> Undefined,
     points |-> NoPoints]

\* a registerObject that puts the CREATE action in front of the list
registerObject_Prepend(b, obj) ==
    [b EXCEPT !.initialObjects = Put(b.initialObjects, b.nextId, obj),
              !.currentObjectStates = Put(b.currentObjectStates, b.nextId, obj),
              !.actions = <<Act("CREATE", b.nextId, b.currentTime, 0, Undefined, Undefined, "")>>
                              \o b.actions,
              !.nextId = b.nextId + 1]

registerObject(b, obj) ==
    [b EXCEPT !.initialObjects = Put(b.initialObjects, b.nextId, obj),
              !.currentObjectStates = Put(b.currentObjectStates, b.nextId, obj),
              !.actions = Append(b.actions,
                                 Act("CREATE", b.nextId, b.currentTime, 0, Undefined, Undefined, "")),
              !.nextId = b.nextId + 1]

addCircle(b, props) ==
    registerObject(b, [createBaseObject("CIRCLE", props) EXCEPT !.radius = props.radius])

addRect(b, props) ==
    registerObject(b, [createBaseObject("RECT", props) EXCEPT !.width = props.width,
                                                               !.height = props.height])

addText(b, props) ==
    registerObject(b, [createBaseObject("TEXT", props) EXCEPT !.text = props.text])

addPolygon(b, props) ==
    registerObject(b, [createBaseObject("POLYGON", props) EXCEPT !.points = props.points])

addGroup(b, props) ==
    registerObject(b, [createBaseObject("GROUP", props) EXCEPT
                           !.rotation = Opt(props, "rotation", R(0)),
                           !.scale = Opt(props, "scale", R(1)),
                           !.color = "transparent"])

\* a wait that winds the clock back
wait_Back(b, duration) == [b EXCEPT !.currentTime = b.currentTime - duration]

wait(b, duration) == [b EXCEPT !.currentTime = b.currentTime + duration]

\* the visual size the anchor fractions refer to
visualWidth(current) ==
    IF current.type = "CIRCLE" THEN RMul(NumOr0(current.radius), R(2)) ELSE NumOr0(current.width)

visualHeight(current) ==
    IF current.type = "CIRCLE" THEN RMul(NumOr0(current.radius), R(2)) ELSE NumOr0(current.height)

\* worldDx, worldDy: the scaled local shift turned by the object's rotation
worldShift(sx, sy, cos, sin) ==
    [x |-> RSub(RMul(sx, cos), RMul(sy, sin)), y |-> RAdd(RMul(sx, sin), RMul(sy, cos))]

\* a shift that is scaled but not turned by the object's rotation
anchorShift_Unrotated(current, newAnchor) ==
    [x |-> RMul(RMul(RSub(newAnchor.x, current.anchor.x), visualWidth(current)), current.scale),
     y |-> RMul(RMul(RSub(newAnchor.y, current.anchor.y), visualHeight(current)), current.scale)]

\* the shift of the anchor point in world space when the anchor becomes newAnchor
anchorShift(current, newAnchor) ==
    worldShift(RMul(RMul(RSub(newAnchor.x, current.anchor.x), visualWidth(current)), current.scale),
               RMul(RMul(RSub(newAnchor.y, current.anchor.y), visualHeight(current)), current.scale),
               R(CosQ(current.rotation)), R(SinQ(current.rotation)))

withShift(current, shift, props) ==
    [x |-> RAdd(current.x, shift.x), y |-> RAdd(current.y, shift.y)] @@ props

\* endValues of update: props, plus the compensating x and y when only the anchor is given
endValuesOf(current, props) ==
    IF "anchor" \in DOMAIN props /\ "x" \notin DOMAIN props /\ "y" \notin DOMAIN props
    THEN withShift(current, anchorShift(current, props.anchor), props)
    ELSE props

\* an update whose Object.assign lands on the initial object as well
recordUpdate_OnInitial(b, id, current, endValues, duration, easing) ==
    [b EXCEPT !.actions = Append(b.actions,
                  Act("UPDATE", id, b.currentTime, duration,
                      [k \in DOMAIN endValues |-> current[k]], endValues, easing)),
              !.currentObjectStates = Put(b.currentObjectStates, id,
                  [k \in DOMAIN current |-> IF k \in DOMAIN endValues THEN endValues[k] ELSE current[k]]),
              !.initialObjects = Put(b.initialObjects, id,
                  [k \in DOMAIN current |-> IF k \in DOMAIN endValues THEN endValues[k] ELSE current[k]]),
              !.currentTime = b.currentTime + duration]

\* the action update appends, the Object.assign on the cache and the clock
recordUpdate(b, id, current, endValues, duration, easing) ==
    [b EXCEPT !.actions = Append(b.actions,
                  Act("UPDATE", id, b.currentTime, duration,
                      [k \in DOMAIN endValues |-> current[k]], endValues, easing)),
              !.currentObjectStates = Put(b.currentObjectStates, id,
                  [k \in DOMAIN current |-> IF k \in DOMAIN endValues THEN endValues[k] ELSE current[k]]),
              !.currentTime = b.currentTime + duration]

\* update that reads the start values from the initial objects, not from the cache
update_StartFromInitial(b, id, props, duration, easing) ==
    IF id \notin DOMAIN b.currentObjectStates THEN Throw(b)
    ELSE recordUpdate(b, id, b.initialObjects[id],
                      endValuesOf(b.initialObjects[id], props), duration, easing)

\* update that does nothing for an id it does not know
update_SilentNoOp(b, id, props, duration, easing) ==
    IF id \notin DOMAIN b.currentObjectStates THEN b
    ELSE recordUpdate(b, id, b.currentObjectStates[id],
                      endValuesOf(b.currentObjectStates[id], props), duration, easing)

update(b, id, props, duration, easing) ==
    IF id \notin DOMAIN b.currentObjectStates THEN Throw(b)
    ELSE recordUpdate(b, id, b.currentObjectStates[id],
                      endValuesOf(b.currentObjectStates[id], props), duration, easing)

DefaultEasing == "easeInOutCubic"

\* a moveTo that eases in
moveTo_EaseIn(b, id, pos, duration) == update(b, id, pos, duration, "easeInQuad")

moveTo(b, id, pos, duration) == update(b, id, pos, duration, DefaultEasing)

moveBy(b, id, delta, duration) ==
    IF id \notin DOMAIN b.currentObjectStates THEN Throw(b)
    ELSE LET current == b.currentObjectStates[id]
             props == [k \in DOMAIN delta |-> RAdd(current[k], delta[k])]
         IN  update(b, id, props, duration, DefaultEasing)

moveZ(b, id, z, duration) == update(b, id, [z |-> z], duration, DefaultEasing)

arc(b, id, center, angleDegrees, duration) ==
    IF id \notin DOMAIN b.currentObjectStates THEN Throw(b)
    ELSE LET current == b.currentObjectStates[id]
             dx == RSub(current.x, center.x)
             dy == RSub(current.y, center.y)
             radius == Hypot(dx, dy)
             startAngle == Atan2Q(dy, dx)
             angleRad == DegToRad(angleDegrees)
             endAngle == RAdd(startAngle, angleRad)
             moved == [current EXCEPT
                          !.x = RAdd(center.x, RMul(radius, R(CosQ(endAngle)))),
                          !.y = RAdd(center.y, RMul(radius, R(SinQ(endAngle))))]
         IN  [b EXCEPT !.actions = Append(b.actions,
                           Act("ARC", id, b.currentTime, duration,
                               [centerX |-> center.x, centerY |-> center.y,
                                radius |-> radius, startAngle |-> startAngle],
                               angleRad, DefaultEasing)),
                       !.currentObjectStates = Put(b.currentObjectStates, id, moved),
                       !.currentTime = b.currentTime + duration]

scale(b, id, factor, duration) == update(b, id, [scale |-> factor], duration, DefaultEasing)

\* the end value rotate stores for the requested angle and direction
\* a rotate that adds or takes one turn whatever the distance
rotateEnd_OneTurn(startVal, degrees, direction) ==
    IF direction = "CW" /\ RLe(DegToRad(degrees), startVal)
    THEN RAdd(DegToRad(degrees), PI2)
    ELSE IF direction = "CCW" /\ RLe(startVal, DegToRad(degrees))
    THEN RSub(DegToRad(degrees), PI2)
    ELSE DegToRad(degrees)

rotateEnd(startVal, degrees, direction) ==
    LET endVal == DegToRad(degrees)
    IN  IF direction = "CW" /\ RLe(endVal, startVal)
        THEN RAdd(endVal, RMul(R(RFloor(RDiv(RSub(startVal, endVal), PI2)) + 1), PI2))
        ELSE IF direction = "CCW" /\ RLe(startVal, endVal)
        THEN RSub(endVal, RMul(R(RFloor(RDiv(RSub(endVal, startVal), PI2)) + 1), PI2))
        ELSE endVal

rotate(b, id, degrees, duration, direction) ==
    IF id \notin DOMAIN b.currentObjectStates THEN Throw(b)
    ELSE LET current == b.currentObjectStates[id]
             startVal == current.rotation
             endVal == rotateEnd(startVal, degrees, direction)
         IN  [b EXCEPT !.actions = Append(b.actions,
                           Act("ROTATE", id, b.currentTime, duration, startVal, endVal, DefaultEasing)),
                       !.currentObjectStates = Put(b.currentObjectStates, id,
                                                   [current EXCEPT !.rotation = endVal]),
                       !.currentTime = b.currentTime + duration]

rotateX(b, id, degrees, duration) ==
    update(b, id, [rotationX |-> DegToRad(degrees)], duration, DefaultEasing)

rotateY(b, id, degrees, duration) ==
    update(b, id, [rotationY |-> DegToRad(degrees)], duration, DefaultEasing)

rotateBy(b, id, degrees, duration) ==
    IF id \notin DOMAIN b.currentObjectStates THEN Throw(b)
    ELSE update(b, id, [rotation |-> RAdd(b.currentObjectStates[id].rotation, DegToRad(degrees))],
                duration, DefaultEasing)

\* resize with a plain number: the key depends on the type, no key for other types
resize(b, id, val, duration) ==
    IF id \notin DOMAIN b.currentObjectStates THEN Throw(b)
    ELSE LET type == b.currentObjectStates[id].type
             props == IF type \in {"CIRCLE", "REGULAR_POLYGON"} THEN [radius |-> val]
                      ELSE IF type \in {"LINE", "ARROW", "IMAGE", "RECT"} THEN [width |-> val]
                      ELSE << >>
         IN  update(b, id, props, duration, DefaultEasing)

changeColor(b, id, color, duration) == update(b, id, [color |-> color], duration, DefaultEasing)

fadeOut(b, id, duration) == update(b, id, [opacity |-> R(0)], duration, DefaultEasing)

fadeIn(b, id, duration) == update(b, id, [opacity |-> R(1)], duration, DefaultEasing)

count(b, id, endValue, duration) ==
    IF id \notin DOMAIN b.currentObjectStates THEN Throw(b)
    ELSE LET current == b.currentObjectStates[id]
             startVal == ParseFloat(TextOr(current.text, <<"0">>))
         IN  [b EXCEPT !.actions = Append(b.actions,
                           Act("COUNT", id, b.currentTime, duration, startVal, endValue, "linear")),
                       !.currentObjectStates = Put(b.currentObjectStates, id,
                                                   [current EXCEPT !.text = NumberToString(endValue)]),
                       !.currentTime = b.currentTime + duration]

typeWriter(b, id, duration) ==
    IF id \notin DOMAIN b.currentObjectStates THEN Throw(b)
    ELSE LET current == b.currentObjectStates[id]
             fullText == TextOr(current.text, <<>>)
         IN  [b EXCEPT !.actions = Append(b.actions,
                           Act("TYPEWRITER", id, b.currentTime, duration, R(0), fullText, "linear")),
                       !.currentObjectStates = Put(b.currentObjectStates, id,
                                                   [current EXCEPT !.opacity = R(1)]),
                       !.currentTime = b.currentTime + duration]

wiggle(b, id, duration, strength) ==
    IF id \notin DOMAIN b.currentObjectStates THEN Throw(b)
    ELSE [b EXCEPT !.actions = Append(b.actions,
                       Act("WIGGLE", id, b.currentTime, duration,
                           b.currentObjectStates[id].rotation, DegToRad(strength), "linear")),
                   !.currentTime = b.currentTime + duration]

pulse(b, id, duration, scaleFactor) ==
    IF id \notin DOMAIN b.currentObjectStates THEN Throw(b)
    ELSE [b EXCEPT !.actions = Append(b.actions,
                       Act("PULSE", id, b.currentTime, duration,
                           b.currentObjectStates[id].scale, scaleFactor, "linear")),
                   !.currentTime = b.currentTime + duration]

shake(b, id, duration, strength) ==
    IF id \notin DOMAIN b.currentObjectStates THEN Throw(b)
    ELSE [b EXCEPT !.actions = Append(b.actions,
                       Act("SHAKE", id, b.currentTime, duration,
                           b.currentObjectStates[id].x, strength, "linear")),
                   !.currentTime = b.currentTime + duration]

glow(b, id, options, duration) ==
    IF id \notin DOMAIN b.currentObjectStates THEN Throw(b)
    ELSE LET current == b.currentObjectStates[id]
             targetColor == Opt(options, "color", current.shadowColor)
             targetBlur == Opt(options, "strength", R(20))
         IN  [b EXCEPT !.actions = Append(b.actions,
                           Act("GLOW", id, b.currentTime, duration,
                               [blur |-> current.shadowBlur, color |-> current.shadowColor],
                               [blur |-> targetBlur, color |-> targetColor], DefaultEasing)),
                       !.currentObjectStates = Put(b.currentObjectStates, id,
                                                   [current EXCEPT !.shadowBlur = targetBlur,
                                                                   !.shadowColor = targetColor]),
                       !.currentTime = b.currentTime + duration]

getTimeline(b) == [duration |-> b.currentTime, actions |-> b.actions, objects |-> b.initialObjects]

\* ------------------------------------------------------------------------
\* Callbacks: playTogether tasks and addScene scene functions
\* ------------------------------------------------------------------------
\* A callback is a sequence of calls on the builder it is handed.  A target
\* n > 0 is the object id n; a target -k is the script variable holding the
\* id returned by the k-th creation call made on that builder.
NthKey(m, k) ==
    IF k <= Cardinality(DOMAIN m)
    THEN CHOOSE i \in DOMAIN m : Cardinality({j \in DOMAIN m : j <= i}) = k
    ELSE NoId

ScriptVar(b, target) == IF target < 0 THEN NthKey(b.initialObjects, -target) ELSE target

\* the shape of a call: what the verb is, its target, properties, scalar
\* argument, duration, easing (direction for rotate) and callbacks
Call(op, id, props, arg, d, easing, tasks) ==
    [op |-> op, id |-> id, props |-> props, arg |-> arg, d |-> d, easing |-> easing, tasks |-> tasks]

RECURSIVE RunScript(_, _)
RECURSIVE Exec(_, _)
RECURSIVE runTasks(_, _, _, _)
RECURSIVE runTasksNoReset(_, _, _, _)
RECURSIVE afterTask(_, _, _, _)
RECURSIVE afterTaskNoReset(_, _, _, _)

\* maxDuration = Math.max(maxDuration, taskDuration)
Max(a, b) == IF a > b THEN a ELSE b

\* the forEach of playTogether: the clock is put back to startTime before each task
afterTask(after, rest, startTime, maxDuration) ==
    IF after.err THEN after
    ELSE runTasks(after, rest, startTime, Max(maxDuration, after.currentTime - startTime))

runTasks(b, tasks, startTime, maxDuration) ==
    IF Len(tasks) = 0 THEN [b EXCEPT !.currentTime = startTime + maxDuration]
    ELSE afterTask(RunScript([b EXCEPT !.currentTime = startTime], Head(tasks)),
                   Tail(tasks), startTime, maxDuration)

afterTaskNoReset(after, rest, startTime, maxDuration) ==
    IF after.err THEN after
    ELSE runTasksNoReset(after, rest, startTime, Max(maxDuration, after.currentTime - startTime))

runTasksNoReset(b, tasks, startTime, maxDuration) ==
    IF Len(tasks) = 0 THEN [b EXCEPT !.currentTime = startTime + maxDuration]
    ELSE afterTaskNoReset(RunScript(b, Head(tasks)), Tail(tasks), startTime, maxDuration)

playTogether_NoReset(b, tasks) == runTasksNoReset(b, tasks, b.currentTime, 0)

playTogether(b, tasks) == runTasks(b, tasks, b.currentTime, 0)

\* the objects addScene imports: every object of the nested timeline, re-parented
importObjects(objects, nested, groupId) ==
    [i \in DOMAIN objects \cup DOMAIN nested |->
        IF i \in DOMAIN nested THEN [nested[i] EXCEPT !.parentId = groupId] ELSE objects[i]]

\* the actions addScene imports: start times shifted by the outer clock
importActions_NoShift(nestedActions, timeOffset) == nestedActions

importActions(nestedActions, timeOffset) ==
    [k \in 1..Len(nestedActions) |->
        [nestedActions[k] EXCEPT !.startTime = nestedActions[k].startTime + timeOffset]]

\* the properties addScene hands to addGroup
SceneGroupKeys == {"x", "y", "z", "scale", "opacity", "anchor"}

\* the import of the nested timeline under the group; a throw in sceneFn leaves the group
importScene(withGroup, groupId, subContext) ==
    IF subContext.err THEN [withGroup EXCEPT !.err = TRUE, !.nextId = subContext.nextId]
    ELSE [withGroup EXCEPT
             !.initialObjects =
                 importObjects(withGroup.initialObjects, subContext.initialObjects, groupId),
             !.currentObjectStates =
                 importObjects(withGroup.currentObjectStates, subContext.initialObjects, groupId),
             !.actions = withGroup.actions \o importActions(subContext.actions, withGroup.currentTime),
             !.nextId = subContext.nextId]

\* a sub-scene that runs on the clock of the outer builder and leaves it advanced
runScene_SharedClock(withGroup, groupId, sceneFn) ==
    [importScene(withGroup, groupId, RunScript(NewVideoContext(withGroup.nextId), sceneFn))
        EXCEPT !.currentTime =
                   withGroup.currentTime
                       + RunScript(NewVideoContext(withGroup.nextId), sceneFn).currentTime]

\* sceneFn runs on a fresh builder; ids keep coming from the one generator
runScene(withGroup, groupId, sceneFn) ==
    importScene(withGroup, groupId, RunScript(NewVideoContext(withGroup.nextId), sceneFn))

addScene(b, sceneFn, props) ==
    runScene(addGroup(b, [k \in DOMAIN props \cap SceneGroupKeys |-> props[k]]), b.nextId, sceneFn)

\* the named ids that group finds among the initial objects, in the order named
RECURSIVE foundIn(_, _)
foundIn(objects, ids) ==
    IF Len(ids) = 0 THEN << >>
    ELSE (IF Head(ids) \in DOMAIN objects THEN <<Head(ids)>> ELSE << >>)
             \o foundIn(objects, Tail(ids))

\* sumX, sumY, sumZ of group
RECURSIVE sumOver(_, _, _)
sumOver(objects, ids, key) ==
    IF Len(ids) = 0 THEN R(0)
    ELSE RAdd(objects[Head(ids)][key], sumOver(objects, Tail(ids), key))

\* centerX, centerY, centerZ of group: the mean of the members' initial positions
centroid(objects, ids) ==
    [k \in {"x", "y", "z"} |-> RDiv(sumOver(objects, ids, k), R(Len(ids)))]

\* a member put under the group: its position becomes relative to the centre
adopted(obj, groupId, center) ==
    [obj EXCEPT !.parentId = groupId,
                !.x = RSub(obj.x, center.x),
                !.y = RSub(obj.y, center.y),
                !.z = RSub(obj.z, center.z)]

\* the second forEach of group, on the initial object and on the cached one
RECURSIVE adoptEach(_, _, _, _)
adoptEach(b, ids, groupId, center) ==
    IF Len(ids) = 0 THEN b
    ELSE adoptEach(
             [b EXCEPT !.initialObjects =
                           Put(b.initialObjects, Head(ids),
                               adopted(b.initialObjects[Head(ids)], groupId, center)),
                       !.currentObjectStates =
                           IF Head(ids) \in DOMAIN b.currentObjectStates
                           THEN Put(b.currentObjectStates, Head(ids),
                                    adopted(b.currentObjectStates[Head(ids)], groupId, center))
                           ELSE b.currentObjectStates],
             Tail(ids), groupId, center)

\* group once the members are found: addGroup at the centre (props override it)
groupFound(b, members, center, props) ==
    adoptEach(addGroup(b, props @@ center), members, b.nextId, center)

\* a group that makes its group object also when it found no member
group_Always(b, objectIds, props) ==
    groupFound(b, foundIn(b.initialObjects, objectIds),
               centroid(b.initialObjects, foundIn(b.initialObjects, objectIds)), props)

\* what group returns: the id of the new group, or "" (no id) when it found no member
groupReturn(b, objectIds) ==
    IF Len(foundIn(b.initialObjects, objectIds)) = 0 THEN NoId ELSE b.nextId

group(b, objectIds, props) ==
    IF Len(foundIn(b.initialObjects, objectIds)) = 0 THEN b
    ELSE groupFound(b, foundIn(b.initialObjects, objectIds),
                    centroid(b.initialObjects, foundIn(b.initialObjects, objectIds)), props)

\* a child taken out of the group: the group's initial position is added back
released(obj, groupInitial) ==
    [obj EXCEPT !.parentId = NoId,
                !.x = RAdd(obj.x, groupInitial.x),
                !.y = RAdd(obj.y, groupInitial.y),
                !.z = RAdd(obj.z, groupInitial.z)]

\* the forEach of ungroup over the initial objects
releaseEach(b, id, objects) ==
    [i \in DOMAIN objects |->
        IF i \in DOMAIN b.initialObjects /\ b.initialObjects[i].parentId = id
        THEN released(objects[i], b.initialObjects[id])
        ELSE objects[i]]

ungroup(b, id) ==
    IF id \notin DOMAIN b.initialObjects THEN b
    ELSE IF b.initialObjects[id].type # "GROUP" THEN b
    ELSE [b EXCEPT !.initialObjects = releaseEach(b, id, b.initialObjects),
                   !.currentObjectStates = releaseEach(b, id, b.currentObjectStates)]

\* a task that fades its object whatever its opacity
fadeIfVisible_Always(b, id, duration) == fadeOut(b, id, duration)

\* the task nextPage makes for one id: only what is visible is faded
fadeIfVisible(b, id, duration) ==
    IF id \in DOMAIN b.currentObjectStates /\ RLt(R(0), b.currentObjectStates[id].opacity)
    THEN fadeOut(b, id, duration)
    ELSE b

\* one task per key of the cache, in the order of the keys
nextPage(b, duration) ==
    playTogether(b, [k \in 1..Cardinality(DOMAIN b.currentObjectStates) |->
                        << Call("fadeIfVisible", NthKey(b.currentObjectStates, k), << >>, R(0),
                                duration, "", << >>) >>])

\* one call of a callback, or of the top-level script
Exec(b, c) ==
    LET id == ScriptVar(b, c.id)
    IN  CASE c.op = "wait" -> wait(b, c.d)
          [] c.op = "addCircle" -> addCircle(b, c.props)
          [] c.op = "addRect" -> addRect(b, c.props)
          [] c.op = "addText" -> addText(b, c.props)
          [] c.op = "addPolygon" -> addPolygon(b, c.props)
          [] c.op = "addGroup" -> addGroup(b, c.props)
          [] c.op = "update" -> update(b, id, c.props, c.d, c.easing)
          [] c.op = "moveTo" -> moveTo(b, id, c.props, c.d)
          [] c.op = "moveBy" -> moveBy(b, id, c.props, c.d)
          [] c.op = "moveZ" -> moveZ(b, id, c.arg, c.d)
          [] c.op = "arc" -> arc(b, id, c.props, c.arg, c.d)
          [] c.op = "scale" -> scale(b, id, c.arg, c.d)
          [] c.op = "rotate" -> rotate(b, id, c.arg, c.d, c.easing)
          [] c.op = "rotateX" -> rotateX(b, id, c.arg, c.d)
          [] c.op = "rotateY" -> rotateY(b, id, c.arg, c.d)
          [] c.op = "rotateBy" -> rotateBy(b, id, c.arg, c.d)
          [] c.op = "resize" -> resize(b, id, c.arg, c.d)
          [] c.op = "changeColor" -> changeColor(b, id, c.arg, c.d)
          [] c.op = "fadeOut" -> fadeOut(b, id, c.d)
          [] c.op = "fadeIn" -> fadeIn(b, id, c.d)
          [] c.op = "count" -> count(b, id, c.arg, c.d)
          [] c.op = "typeWriter" -> typeWriter(b, id, c.d)
          [] c.op = "wiggle" -> wiggle(b, id, c.d, c.arg)
          [] c.op = "pulse" -> pulse(b, id, c.d, c.arg)
          [] c.op = "shake" -> shake(b, id, c.d, c.arg)
          [] c.op = "glow" -> glow(b, id, c.props, c.d)
          [] c.op = "playTogether" -> playTogether(b, c.tasks)
          [] c.op = "addScene" -> addScene(b, c.tasks, c.props)
          [] c.op = "group" ->
               group(b, [k \in 1..Len(c.arg) |-> ScriptVar(b, c.arg[k])], c.props)
          [] c.op = "ungroup" -> ungroup(b, id)
          [] c.op = "nextPage" -> nextPage(b, c.d)
          [] c.op = "fadeIfVisible" -> fadeIfVisible(b, id, c.d)

\* the calls of a callback in order; a throw ends it
RunScript(b, script) ==
    IF Len(script) = 0 \/ b.err THEN b
    ELSE RunScript(Exec(b, Head(script)), Tail(script))

\* ------------------------------------------------------------------------
\* 3D rotation helpers (angles in quarter turns, matrices row-major 1..9)
\* ------------------------------------------------------------------------
multiplyMatrices(a, b) ==
    [i \in 1..9 |->
        LET row == (i - 1) \div 3
            col == (i - 1) % 3
        IN  a[row * 3 + 1] * b[col + 1] + a[row * 3 + 2] * b[col + 4] + a[row * 3 + 3] * b[col + 7]]

\* Rz * Ry * Rx
createRotationMatrix(rx, ry, rz) ==
    LET cx == CosQ(rx)
        sx == SinQ(rx)
        cy == CosQ(ry)
        sy == SinQ(ry)
        cz == CosQ(rz)
        sz == SinQ(rz)
        Rx == <<1, 0, 0, 0, cx, -sx, 0, sx, cx>>
        Ry == <<cy, 0, sy, 0, 1, 0, -sy, 0, cy>>
        Rz == <<cz, -sz, 0, sz, cz, 0, 0, 0, 1>>
    IN  multiplyMatrices(Rz, multiplyMatrices(Ry, Rx))

\* an extraction with no branch for gimbal lock
extractEuler_NoLock(matrix) ==
    [x |-> Atan2Q(R(matrix[8]), R(matrix[9])),
     y |-> R(-matrix[7]),
     z |-> Atan2Q(R(matrix[4]), R(matrix[1]))]

extractEuler(matrix) ==
    LET m11 == matrix[1]
        m12 == matrix[2]
        m21 == matrix[4]
        m22 == matrix[5]
        m31 == matrix[7]
        m32 == matrix[8]
        m33 == matrix[9]
    IN  IF m31 = 0
        THEN [x |-> Atan2Q(R(m32), R(m33)), y |-> R(0), z |-> Atan2Q(R(m21), R(m11))]
        ELSE [x |-> R(0), y |-> R(-m31), z |-> Atan2Q(R(-m12), R(m22))]

applyMatrixToVector(m, v) ==
    [x |-> RAdd(RAdd(RMul(R(m[1]), v.x), RMul(R(m[2]), v.y)), RMul(R(m[3]), v.z)),
     y |-> RAdd(RAdd(RMul(R(m[4]), v.x), RMul(R(m[5]), v.y)), RMul(R(m[6]), v.z)),
     z |-> RAdd(RAdd(RMul(R(m[7]), v.x), RMul(R(m[8]), v.y)), RMul(R(m[9]), v.z))]

\* ------------------------------------------------------------------------
\* Scene graph resolution
\* ------------------------------------------------------------------------
\* a resolver that adds the three angles of parent and child axis by axis
worldOf_AddAngles(obj, parentTransform) ==
    [obj EXCEPT !.x = RAdd(parentTransform.x, RMul(obj.x, parentTransform.scale)),
                !.y = RAdd(parentTransform.y, RMul(obj.y, parentTransform.scale)),
                !.z = RAdd(parentTransform.z, RMul(obj.z, parentTransform.scale)),
                !.scale = RMul(obj.scale, parentTransform.scale),
                !.opacity = RMul(obj.opacity, parentTransform.opacity),
                !.rotationX = RAdd(obj.rotationX, parentTransform.rotationX),
                !.rotationY = RAdd(obj.rotationY, parentTransform.rotationY),
                !.rotation = RAdd(obj.rotation, parentTransform.rotation)]

\* the world-space copy of a node under the accumulated transform of its parent
worldOf(obj, parentTransform) ==
    LET s == parentTransform.scale
        parentMatrix == createRotationMatrix(parentTransform.rotationX,
                                             parentTransform.rotationY,
                                             parentTransform.rotation)
        rotatedPos == applyMatrixToVector(parentMatrix,
                          [x |-> RMul(obj.x, s), y |-> RMul(obj.y, s), z |-> RMul(obj.z, s)])
        childMatrix == createRotationMatrix(obj.rotationX, obj.rotationY, obj.rotation)
        newEuler == extractEuler(multiplyMatrices(parentMatrix, childMatrix))
    IN  [obj EXCEPT !.x = RAdd(parentTransform.x, rotatedPos.x),
                    !.y = RAdd(parentTransform.y, rotatedPos.y),
                    !.z = RAdd(parentTransform.z, rotatedPos.z),
                    !.scale = RMul(obj.scale, s),
                    !.opacity = RMul(obj.opacity, parentTransform.opacity),
                    !.rotationX = newEuler.x,
                    !.rotationY = newEuler.y,
                    !.rotation = newEuler.z]

\* the 2D resolver's world-space copy of a node: one scalar rotation, added
worldOf2D(obj, parentTransform) ==
    [obj EXCEPT !.x = RAdd(parentTransform.x,
                           RMul(RSub(RMul(obj.x, R(CosQ(parentTransform.rotation))),
                                     RMul(obj.y, R(SinQ(parentTransform.rotation)))),
                                parentTransform.scale)),
                !.y = RAdd(parentTransform.y,
                           RMul(RAdd(RMul(obj.x, R(SinQ(parentTransform.rotation))),
                                     RMul(obj.y, R(CosQ(parentTransform.rotation)))),
                                parentTransform.scale)),
                !.scale = RMul(obj.scale, parentTransform.scale),
                !.rotation = RAdd(obj.rotation, parentTransform.rotation),
                !.opacity = RMul(obj.opacity, parentTransform.opacity)]

RECURSIVE resolveNode(_, _, _, _, _)
RECURSIVE resolveNode_LocalParent(_, _, _, _, _)
RECURSIVE resolveEach(_, _, _, _, _)

\* a resolver that hands the children the local values of their parent
resolveNode_LocalParent(objects, id, hasParent, parentTransform, resolved) ==
    IF id \notin DOMAIN objects THEN resolved
    ELSE resolveEach(objects, {c \in DOMAIN objects : objects[c].parentId = id}, TRUE,
                     objects[id],
                     Put(resolved, id, IF hasParent THEN worldOf(objects[id], parentTransform)
                                       ELSE objects[id]))

\* resolveNode(id, parentTransform): resolved.set, then the children in order
resolveNode(objects, id, hasParent, parentTransform, resolved) ==
    IF id \notin DOMAIN objects THEN resolved
    ELSE LET worldObj == IF hasParent THEN worldOf(objects[id], parentTransform) ELSE objects[id]
             children == {c \in DOMAIN objects : objects[c].parentId = id}
         IN  resolveEach(objects, children, TRUE, worldObj, Put(resolved, id, worldObj))

\* forEach over ids in insertion order
resolveEach(objects, ids, hasParent, parentTransform, resolved) ==
    IF ids = {} THEN resolved
    ELSE LET first == CHOOSE i \in ids : \A j \in ids : i <= j
         IN  resolveEach(objects, ids \ {first}, hasParent, parentTransform,
                         resolveNode(objects, first, hasParent, parentTransform, resolved))

\* a resolver that takes an object whose parent is not in the map for a root
resolveHierarchy_Orphans(objects) ==
    resolveEach(objects,
                {i \in DOMAIN objects :
                    objects[i].parentId = NoId \/ objects[i].parentId \notin DOMAIN objects},
                FALSE, << >>, << >>)

\* the resolved Map: id -> world-space object, for the objects reached from a root
resolveHierarchy(objects) ==
    LET roots == {i \in DOMAIN objects : objects[i].parentId = NoId}
    IN  resolveEach(objects, roots, FALSE, << >>, << >>)

RECURSIVE visitsNode(_, _)
RECURSIVE visitsEach(_, _)

\* the ids resolveNode(id) passes to resolved.set, in the order of the calls
visitsNode(objects, id) ==
    IF id \notin DOMAIN objects THEN << >>
    ELSE <<id>> \o visitsEach(objects, {c \in DOMAIN objects : objects[c].parentId = id})

\* the same for a forEach over ids in insertion order
visitsEach(objects, ids) ==
    IF ids = {} THEN << >>
    ELSE visitsNode(objects, CHOOSE i \in ids : \A j \in ids : i <= j)
             \o visitsEach(objects, ids \ {CHOOSE i \in ids : \A j \in ids : i <= j})

\* roots.forEach(rootId => resolveNode(rootId)): every call of resolved.set it makes
visitsOf(objects) == visitsEach(objects, {i \in DOMAIN objects : objects[i].parentId = NoId})

\* ------------------------------------------------------------------------
\* The evaluator
\* ------------------------------------------------------------------------
Null == <<0, -2>>
\* JSON.parse(JSON.stringify(obj)): NaN comes back as null, the rest as it was
JsonClone(obj) ==
    [k \in DOMAIN obj |-> IF k \in NumericKeys /\ obj[k] = NaN THEN Null ELSE obj[k]]

\* no sort: the actions stay in insertion order
sortByStartTime_None(s) == s

RECURSIVE sortByStartTime(_)
\* Array.prototype.sort with (a, b) => a.startTime - b.startTime; the sort is stable
sortByStartTime(s) ==
    IF Len(s) = 0 THEN << >>
    ELSE LET rest == sortByStartTime(SubSeq(s, 1, Len(s) - 1))
             a == s[Len(s)]
             k == Cardinality({i \in 1..Len(rest) : rest[i].startTime <= a.startTime})
         IN  SubSeq(rest, 1, k) \o <<a>> \o SubSeq(rest, k + 1, Len(rest))

\* a filter that lets every action through
activeFilter_All(a, time) == TRUE

\* timeline.actions.filter(a => a.startTime <= time)
activeFilter(a, time) == a.startTime <= time

activeActions(acts, time) ==
    sortByStartTime(SelectSeq(acts, LAMBDA a : activeFilter(a, time)))

\* t of the code: 1 for a zero duration, else (time - startTime) / duration clamped to [0, 1]
rawProgress(action, time) ==
    IF action.duration = 0 THEN R(1)
    ELSE LET rawT == Norm(time - action.startTime, action.duration)
         IN  IF RLt(rawT, R(0)) THEN R(0) ELSE IF RLt(R(1), rawT) THEN R(1) ELSE rawT

\* names the registry, an object literal, inherits from Object.prototype: the lookup
\* Easings[name] finds them as it finds the registry's own
InheritedNames == {"toString", "hasOwnProperty"}
\* what the inherited function returns, as the number the arithmetic makes of it:
\* toString returns "[object Object]" (NaN), hasOwnProperty returns false (0)
Inherited(name, t) == IF name = "toString" THEN NaN ELSE R(0)

\* an inherited member that is no function: __proto__ is Object.prototype itself, the
\* test of the lookup finds it truthy and the call of it raises a TypeError
NotCallableNames == {"__proto__"}

\* easedT of the code, where the call returns
easedProgress(action, t) ==
    IF action.easing = "" THEN t
    ELSE IF action.easing \in EasingNames THEN Easings(action.easing, t)
    ELSE IF action.easing \in InheritedNames THEN Inherited(action.easing, t)
    ELSE t

\* the value the UPDATE rule writes under key
\* a point rule that takes the end list as it is
lerpPoints_EndList(s, e, easedT) == e

\* newPoints: the first min(s.length, e.length) points, each interpolated
lerpPoints(s, e, easedT) ==
    [i \in 1..(IF Len(s) < Len(e) THEN Len(s) ELSE Len(e)) |->
        [x |-> Lerp(s[i].x, e[i].x, easedT), y |-> Lerp(s[i].y, e[i].y, easedT)]]

updateValue(key, s, e, t, easedT) ==
    IF IsNumberAt(key, s) /\ IsNumberAt(key, e) THEN Lerp(s, e, easedT)
    ELSE IF key \in ColorKeys THEN (IF RLe(Half, t) THEN e ELSE s)
    ELSE IF key = "anchor" THEN [x |-> Lerp(s.x, e.x, easedT), y |-> Lerp(s.y, e.y, easedT)]
    ELSE IF key = "points" /\ IsArray(s) /\ IsArray(e) THEN lerpPoints(s, e, easedT)
    ELSE e

\* the straight line between the two ends of the arc
arcPosition_Chord(sv, ev, easedT) ==
    [x |-> Lerp(RAdd(sv.centerX, RMul(sv.radius, R(CosQ(sv.startAngle)))),
                RAdd(sv.centerX, RMul(sv.radius, R(CosQ(RAdd(sv.startAngle, ev))))), easedT),
     y |-> Lerp(RAdd(sv.centerY, RMul(sv.radius, R(SinQ(sv.startAngle)))),
                RAdd(sv.centerY, RMul(sv.radius, R(SinQ(RAdd(sv.startAngle, ev))))), easedT)]

\* case ARC: the point at currentAngle = startAngle + angleDelta * easedT on the circle
arcPosition(sv, ev, easedT) ==
    [x |-> RAdd(sv.centerX, RMul(sv.radius, R(CosQ(RAdd(sv.startAngle, RMul(ev, easedT)))))),
     y |-> RAdd(sv.centerY, RMul(sv.radius, R(SinQ(RAdd(sv.startAngle, RMul(ev, easedT))))))]

\* the switch of renderSceneAtTime on one object
applyToObject(obj, action, t, easedT) ==
    LET sv == action.startValue
        ev == action.endValue
    IN  CASE action.type = "MOVE" ->
               [obj EXCEPT !.x = Lerp(sv.x, ev.x, easedT), !.y = Lerp(sv.y, ev.y, easedT)]
          [] action.type = "ARC" ->
               [obj EXCEPT !.x = arcPosition(sv, ev, easedT).x,
                           !.y = arcPosition(sv, ev, easedT).y]
          [] action.type = "ROTATE" -> [obj EXCEPT !.rotation = Lerp(sv, ev, easedT)]
          [] action.type = "COUNT" ->
               [obj EXCEPT !.text = NumberToString(MathRound(Lerp(sv, ev, easedT)))]
          [] action.type = "TYPEWRITER" ->
               [obj EXCEPT !.opacity = R(1),
                           !.text = SubSeq(ev, 1, RFloor(RMul(R(Len(ev)), easedT)))]
          [] action.type = "WIGGLE" ->
               IF RLt(t, R(1))
               THEN [obj EXCEPT !.rotation =
                        RAdd(sv, RMul(RMul(R(SinQ(RMul(t, R(20)))), ev), RSub(R(1), t)))]
               ELSE [obj EXCEPT !.rotation = sv]
          [] action.type = "PULSE" ->
               IF RLt(t, R(1))
               THEN [obj EXCEPT !.scale = RAdd(sv, RMul(RSub(ev, sv), R(SinQ(RMul(t, R(2))))))]
               ELSE [obj EXCEPT !.scale = sv]
          [] action.type = "SHAKE" ->
               IF RLt(t, R(1))
               THEN [obj EXCEPT !.x =
                        RAdd(sv, RMul(RMul(R(SinQ(RMul(t, R(40)))), ev), RSub(R(1), t)))]
               ELSE [obj EXCEPT !.x = sv]
          [] action.type = "GLOW" ->
               [obj EXCEPT !.shadowBlur = Lerp(sv.blur, ev.blur, easedT),
                           !.shadowColor = IF RLt(R(0), t) THEN ev.color ELSE obj.shadowColor]
          [] action.type = "UPDATE" ->
               [k \in DOMAIN obj |->
                   IF k \in DOMAIN ev THEN updateValue(k, sv[k], ev[k], t, easedT) ELSE obj[k]]
          [] OTHER -> obj

\* the body of activeActions.forEach
applyAction(objects, action, time) ==
    IF action.objectId = NoId \/ action.objectId \notin DOMAIN objects THEN objects
    ELSE LET t == rawProgress(action, time)
         IN  Put(objects, action.objectId,
                 applyToObject(objects[action.objectId], action, t, easedProgress(action, t)))

RECURSIVE applyAll(_, _, _)
applyAll(objects, acts, time) ==
    IF Len(acts) = 0 THEN objects
    ELSE applyAll(applyAction(objects, Head(acts), time), Tail(acts), time)

\* the working copy after every selected action was applied, before resolveHierarchy
localSceneAtTime(timeline, time) ==
    applyAll([i \in DOMAIN timeline.objects |-> JsonClone(timeline.objects[i])],
             activeActions(timeline.actions, time), time)

renderSceneAtTime(timeline, time) == resolveHierarchy(localSceneAtTime(timeline, time))

\* the forEach reaches an action whose easing cannot be called: the call raises
renderRaises(timeline, time) ==
    \E k \in 1..Len(timeline.actions) :
        /\ activeFilter(timeline.actions[k], time)
        /\ timeline.actions[k].objectId # NoId
        /\ timeline.actions[k].objectId \in DOMAIN timeline.objects
        /\ timeline.actions[k].easing \in NotCallableNames

\* a call of renderSceneAtTime that writes into the objects of the timeline
renderCall_NoCopy(timeline, time) ==
    [objects |-> renderSceneAtTime(timeline, time),
     timeline |-> [timeline EXCEPT !.objects = localSceneAtTime(timeline, time)],
     err |-> renderRaises(timeline, time)]

\* a call of renderSceneAtTime: whether it raises, what it returns when it does not,
\* and the timeline it leaves; it works on clones of the objects and on a filtered
\* copy of the actions
renderCall(timeline, time) ==
    [objects |-> renderSceneAtTime(timeline, time), timeline |-> timeline,
     err |-> renderRaises(timeline, time)]

\* ------------------------------------------------------------------------
\* The builder as a state machine: one step per call of the script
\* ------------------------------------------------------------------------
VARIABLES currentTime, actions, initialObjects, currentObjectStates,
          nextId,    \* the next id generateId issues
          threw,     \* the last call raised
          steps,     \* calls made since Init
          last,      \* the last call
          pre,       \* the builder as it was before the last call
          frames,    \* the render queries answered so far (evaluator runs)
          player     \* the player state of App: isPlaying, currentTime, duration, refs

vars == <<currentTime, actions, initialObjects, currentObjectStates, nextId, threw, steps, last, pre,
          frames, player>>

\* no animation frame is requested
NoFrame == << >>

\* the player state App is constructed with (times in hundredths of a second)
NewPlayer ==
    [isPlaying |-> FALSE, currentTime |-> 0, duration |-> 0,
     previousTimeRef |-> FALSE,   \* holds the timestamp of a frame
     requestRef |-> NoFrame]      \* the requested frame: the values its closure captured

MaxSteps == 1
Durations == {0, 2}

\* the builder object
Builder ==
    [currentTime |-> currentTime, actions |-> actions, initialObjects |-> initialObjects,
     currentObjectStates |-> currentObjectStates, nextId |-> nextId, err |-> threw]

NoProps == << >>
NoTasks == << >>
C(op, id, props, arg, d) == Call(op, id, props, arg, d, "", NoTasks)
Chars(k) == CASE k = "HELLO" -> <<"H", "E", "L", "L", "O">>
              [] k = "7" -> <<"7">>
              [] k = "HI" -> <<"H", "I">>

\* script prefixes already run when the exploration starts
Prefixes ==
    << << >>,
       << C("addCircle", NoId, [x |-> R(0), y |-> R(0), radius |-> R(4)], R(0), 0),
          C("addText", NoId, [x |-> R(8), y |-> R(0), text |-> Chars("HELLO")], R(0), 0) >>,
       << C("addText", NoId, [x |-> R(0), y |-> R(0), text |-> Chars("7")], R(0), 0),
          C("wait", NoId, NoProps, R(0), 1),
          C("moveTo", -1, [x |-> R(8)], R(0), 2),
          Call("rotate", -1, NoProps, 90, 0, "CW", NoTasks),
          C("addRect", NoId, [x |-> R(8), y |-> R(8), width |-> R(4), height |-> R(2),
                              opacity |-> Half], R(0), 0) >>,
       << C("wait", NoId, NoProps, R(0), 2),
          Call("addScene", NoId, [x |-> R(16), y |-> R(0)], R(0), 0, "",
               << C("addCircle", NoId, [x |-> R(2), y |-> R(0), radius |-> R(1)], R(0), 0),
                  C("fadeOut", -1, NoProps, R(0), 1) >>),
          C("glow", -2, [color |-> "gold", strength |-> R(10)], R(0), 1) >>,
       << C("addCircle", NoId, [x |-> R(0), y |-> R(0), radius |-> R(4)], R(0), 0),
          C("addCircle", NoId, [x |-> R(8), y |-> R(4), radius |-> R(4)], R(0), 0),
          C("addRect", NoId, [x |-> R(2), y |-> R(8), width |-> R(4), height |-> R(2)], R(0), 0),
          C("group", NoId, NoProps, <<-1, -2>>, 0),
          C("fadeOut", -3, NoProps, R(0), 0) >>,
       << C("addRect", NoId, [x |-> R(8), y |-> R(8), width |-> R(4), height |-> R(2)], R(0), 0),
          C("scale", -1, NoProps, R(2), 0),
          Call("rotate", -1, NoProps, 90, 0, "CW", NoTasks),
          C("addCircle", NoId, [x |-> R(0), y |-> R(0), radius |-> R(4)], R(0), 0),
          C("scale", -2, NoProps, R(3), 1),
          Call("rotate", -2, NoProps, -180, 1, "CCW", NoTasks) >>,
       << C("wait", NoId, NoProps, R(0), 1),
          C("addCircle", NoId, [x |-> R(0), y |-> R(0), radius |-> R(4)], R(0), 0),
          C("addText", NoId, [x |-> R(8), y |-> R(0), text |-> Chars("HI")], R(0), 0),
          C("addRect", NoId, [x |-> R(0), y |-> R(8), width |-> R(4), height |-> R(2),
                              opacity |-> Half], R(0), 0),
          C("fadeOut", -2, NoProps, R(0), 0) >> >>

Init ==
    \E p \in 1..Len(Prefixes) :
        LET b == RunScript(NewVideoContext(1), Prefixes[p])
        IN  /\ currentTime = b.currentTime
            /\ actions = b.actions
            /\ initialObjects = b.initialObjects
            /\ currentObjectStates = b.currentObjectStates
            /\ nextId = b.nextId
            /\ threw = b.err
            /\ steps = 0
            /\ last = C("new", NoId, NoProps, R(0), 0)
            /\ pre = b
            /\ frames = << >>
            /\ player = NewPlayer

\* the builder after a call, with the call and the builder before it recorded
Becomes(b, c) ==
    /\ currentTime' = b.currentTime
    /\ actions' = b.actions
    /\ initialObjects' = b.initialObjects
    /\ currentObjectStates' = b.currentObjectStates
    /\ nextId' = b.nextId
    /\ threw' = b.err
    /\ steps' = steps + 1
    /\ last' = c
    /\ pre' = Builder
    /\ UNCHANGED <<frames, player>>

\* the script goes on: it has calls left and no call has thrown
Ready == steps < MaxSteps /\ ~threw

\* one call of the script on the builder
Step(c) == Becomes(Exec(Builder, c), c)

\* ids a call may name: every object, and one id that was never issued
Targets == DOMAIN currentObjectStates \cup {nextId}
Corners == <<[x |-> R(0), y |-> R(0)], [x |-> R(8), y |-> R(0)], [x |-> R(0), y |-> R(8)]>>
Coords == {R(0), R(8)}

UpdateArgs ==
    << [props |-> [x |-> R(8)], easing |-> "easeInQuad"],
       [props |-> [opacity |-> R(0), color |-> "red"], easing |-> "linear"],
       [props |-> [text |-> Chars("HI"), scale |-> R(2)], easing |-> "bogus"],
       [props |-> [anchor |-> [x |-> R(0), y |-> R(1)]], easing |-> DefaultEasing],
       [props |-> [anchor |-> [x |-> R(1), y |-> R(0)], y |-> R(8)], easing |-> "linear"] >>

Wait == Ready /\ \E d \in Durations : Step(C("wait", NoId, NoProps, R(0), d))
AddCircle == Ready /\ \E x \in Coords : Step(C("addCircle", NoId, [x |-> x, y |-> R(0), radius |-> R(4)], R(0), 0))
AddRect == Ready /\ Step(C("addRect", NoId, [x |-> R(0), y |-> R(8), width |-> R(4), height |-> R(2)], R(0), 0))
AddText == Ready /\ \E k \in {"HELLO", "7"} :
    Step(C("addText", NoId, [x |-> R(8), y |-> R(0), text |-> Chars(k)], R(0), 0))
AddPolygon == Ready /\ \E n \in {2, 3} :
    Step(C("addPolygon", NoId, [x |-> R(0), y |-> R(8), points |-> SubSeq(Corners, 1, n)], R(0), 0))
AddGroup == Ready /\ Step(C("addGroup", NoId, [x |-> R(8), y |-> R(8), scale |-> R(2)], R(0), 0))
Update == Ready /\ \E id \in Targets, d \in Durations, u \in 1..Len(UpdateArgs) :
    Step(Call("update", id, UpdateArgs[u].props, R(0), d, UpdateArgs[u].easing, NoTasks))
MoveTo == Ready /\ \E id \in Targets, d \in Durations, x \in Coords :
    Step(C("moveTo", id, [x |-> x, y |-> R(8)], R(0), d))
MoveBy == Ready /\ \E id \in Targets, d \in Durations : Step(C("moveBy", id, [x |-> R(-8)], R(0), d))
MoveZ == Ready /\ \E id \in Targets, d \in Durations : Step(C("moveZ", id, NoProps, R(8), d))
Arc == Ready /\ \E id \in Targets, d \in Durations, deg \in {180, -90} :
    /\ id \in DOMAIN currentObjectStates => currentObjectStates[id].y = R(0)
    /\ Step(C("arc", id, [x |-> R(4), y |-> R(0)], deg, d))
Scale == Ready /\ \E id \in Targets, d \in Durations : Step(C("scale", id, NoProps, R(2), d))
Rotate == Ready /\ \E id \in Targets, d \in Durations, deg \in {90, -180, 450, -450}, dir \in {"CW", "CCW", "SHORT"} :
    Step(Call("rotate", id, NoProps, deg, d, dir, NoTasks))
RotateX == Ready /\ \E id \in Targets, d \in Durations : Step(C("rotateX", id, NoProps, 90, d))
RotateY == Ready /\ \E id \in Targets, d \in Durations : Step(C("rotateY", id, NoProps, 180, d))
RotateBy == Ready /\ \E id \in Targets, d \in Durations : Step(C("rotateBy", id, NoProps, -90, d))
Resize == Ready /\ \E id \in Targets, d \in Durations : Step(C("resize", id, NoProps, R(6), d))
ChangeColor == Ready /\ \E id \in Targets, d \in Durations : Step(C("changeColor", id, NoProps, "blue", d))
FadeOut == Ready /\ \E id \in Targets, d \in Durations : Step(C("fadeOut", id, NoProps, R(0), d))
FadeIn == Ready /\ \E id \in Targets, d \in Durations : Step(C("fadeIn", id, NoProps, R(0), d))
Count == Ready /\ \E id \in Targets, d \in Durations : Step(C("count", id, NoProps, R(12), d))
TypeWriter == Ready /\ \E id \in Targets, d \in Durations : Step(C("typeWriter", id, NoProps, R(0), d))
Wiggle == Ready /\ \E id \in Targets, d \in Durations : Step(C("wiggle", id, NoProps, 10, d))
Pulse == Ready /\ \E id \in Targets, d \in Durations : Step(C("pulse", id, NoProps, <<6, 5>>, d))
Shake == Ready /\ \E id \in Targets, d \in Durations : Step(C("shake", id, NoProps, R(10), d))
Glow == Ready /\ \E id \in Targets, d \in Durations, o \in {1, 2} :
    Step(C("glow", id, IF o = 1 THEN [color |-> "gold"] ELSE [strength |-> R(5)], R(0), d))

\* task lists for playTogether on the objects a and b
TaskLists(a, b) ==
    << << >>,
       << << C("moveTo", a, [x |-> R(16)], R(0), 2) >>,
          << C("wait", NoId, NoProps, R(0), 1), C("fadeOut", b, NoProps, R(0), 0) >> >>,
       << << C("scale", a, NoProps, R(2), 1) >>,
          << C("moveTo", b, [x |-> R(16)], R(0), 2), C("wiggle", b, NoProps, 10, 2) >>,
          << C("wait", NoId, NoProps, R(0), 1) >> >>,
       << << Call("playTogether", NoId, NoProps, R(0), 0, "",
                  << << C("wait", NoId, NoProps, R(0), 2) >>,
                     << C("scale", a, NoProps, R(2), 1) >> >>),
             C("moveTo", a, [x |-> R(16)], R(0), 1) >>,
          << Call("rotate", b, NoProps, 180, 1, "CW", NoTasks) >> >>,
       << << C("typeWriter", a, NoProps, R(0), 0) >>,
          << C("addCircle", NoId, [x |-> R(0), y |-> R(0), radius |-> R(1)], R(0), 0) >> >> >>

PlayTogether == Ready /\ \E a \in Targets, b \in Targets : \E k \in 1..Len(TaskLists(a, b)) :
    Step(Call("playTogether", NoId, NoProps, R(0), 0, "", TaskLists(a, b)[k]))

\* a scene function that embeds, at (ix, 3), a scene holding one circle at (lx, 2)
NestedSceneFn(ix, lx) ==
    << Call("addScene", NoId, [x |-> ix, y |-> R(3)], R(0), 0, "",
            << C("addCircle", NoId, [x |-> lx, y |-> R(2), radius |-> R(1)], R(0), 0) >>) >>

\* scene functions for addScene
SceneFns(ix, lx) ==
    << << >>,
       << C("addCircle", NoId, [x |-> lx, y |-> R(2), radius |-> R(1)], R(0), 0),
          C("moveTo", -1, [x |-> R(8)], R(0), 2),
          C("wait", NoId, NoProps, R(0), 1),
          C("fadeOut", -1, NoProps, R(0), 1) >>,
       << C("moveTo", -1, [x |-> R(8)], R(0), 2) >>,
       NestedSceneFn(ix, lx),
       << C("addText", NoId, [x |-> lx, y |-> R(0), text |-> Chars("HI")], R(0), 0),
          C("wait", NoId, NoProps, R(0), 1),
          Call("addScene", NoId, [x |-> ix, y |-> R(3)], R(0), 0, "",
               << C("addCircle", NoId, [x |-> lx, y |-> R(2), radius |-> R(1)], R(0), 0),
                  C("scale", -1, NoProps, R(2), 2) >>),
          C("typeWriter", -1, NoProps, R(0), 2) >> >>

AddScene == Ready /\ \E ox \in {R(0), R(16)}, ix \in {R(0), R(5)}, lx \in {R(1)} :
    \E k \in 1..Len(SceneFns(ix, lx)) :
    Step(Call("addScene", NoId, [x |-> ox, y |-> R(32)], R(0), 0, "", SceneFns(ix, lx)[k]))

\* the id lists group is called with: two distinct ids, one, or none
Group == Ready /\ \E a \in Targets, b \in Targets, p \in {1, 2, 3} :
    Step(C("group", NoId, IF p = 2 THEN [x |-> R(8), opacity |-> Half] ELSE NoProps,
           IF p = 3 THEN << >> ELSE IF a = b THEN <<a>> ELSE <<a, b>>, 0))
Ungroup == Ready /\ \E id \in Targets : Step(C("ungroup", id, NoProps, R(0), 0))
NextPage == Ready /\ \E d \in Durations : Step(C("nextPage", NoId, NoProps, R(0), d))

Next ==
    \/ Wait \/ AddCircle \/ AddRect \/ AddText \/ AddPolygon \/ AddGroup \/ Group \/ Ungroup \/ NextPage
    \/ Update \/ MoveTo \/ MoveBy \/ MoveZ \/ Arc \/ Scale
    \/ Rotate \/ RotateX \/ RotateY \/ RotateBy \/ Resize \/ ChangeColor \/ FadeOut \/ FadeIn
    \/ Count \/ TypeWriter \/ Wiggle \/ Pulse \/ Shake \/ Glow
    \/ PlayTogether \/ AddScene

Spec == Init /\ [][Next]_vars

\* ------------------------------------------------------------------------
\* The player: compile runs a whole script, then the timeline is queried
\* ------------------------------------------------------------------------
MaxQueries == 2
QueryTimes == -1..5

U(id, props, d, easing) == Call("update", id, props, R(0), d, easing, NoTasks)
Circle(x, y) == C("addCircle", NoId, [x |-> R(x), y |-> R(y), radius |-> R(4)], R(0), 0)
Text(k) == C("addText", NoId, [x |-> R(0), y |-> R(0), text |-> Chars(k)], R(0), 0)
Together(tasks) == Call("playTogether", NoId, NoProps, R(0), 0, "", tasks)

\* create at (4, 8), wait w, then move to (16, 0) in d
MoveScript(w, d) ==
    << Circle(4, 8),
       C("wait", NoId, NoProps, R(0), w),
       C("moveTo", -1, [x |-> R(16), y |-> R(0)], R(0), d) >>

\* five circles; 6 groups 1 and 2, 7 groups 6 and 3, 8 holds 4 and 9 holds 5; then
\* the groups are scaled, turned about Z, X and Y, and the outer group fades out
NestedGroups ==
    << Circle(4, 0), Circle(0, 4), Circle(4, 4), Circle(8, 0), Circle(0, 8),
       C("group", NoId, NoProps, <<-1, -2>>, 0),
       C("group", NoId, NoProps, <<-6, -3>>, 0),
       C("group", NoId, NoProps, <<-4>>, 0),
       C("group", NoId, NoProps, <<-5>>, 0),
       C("scale", -7, NoProps, R(2), 0),
       Call("rotate", -7, NoProps, 90, 0, "CW", NoTasks),
       Call("rotate", -6, NoProps, 180, 0, "CW", NoTasks),
       U(-6, [scale |-> R(3), opacity |-> Half], 0, "linear"),
       U(-4, [x |-> R(2), z |-> R(4)], 0, "linear"),
       U(-5, [x |-> R(2), z |-> R(4)], 0, "linear"),
       C("rotateY", -8, NoProps, 90, 0),
       C("rotateX", -4, NoProps, 90, 0),
       C("rotateX", -9, NoProps, 90, 0),
       C("rotateY", -5, NoProps, 90, 0),
       C("fadeOut", -7, NoProps, R(0), 2) >>

\* a half circle about (4, 0) from (0, 0), then a straight move away
ArcThenMove ==
    << Circle(0, 0),
       C("wait", NoId, NoProps, R(0), 1),
       C("arc", -1, [x |-> R(4), y |-> R(0)], 180, 2),
       C("moveTo", -1, [x |-> R(16), y |-> R(0)], R(0), 2) >>

\* a triangle reshaped to two points, then to four; a circle given a point list
Reshape ==
    << C("addPolygon", NoId, [x |-> R(0), y |-> R(0), points |-> Corners], R(0), 0),
       U(-1, [points |-> <<[x |-> R(8), y |-> R(8)], [x |-> R(16), y |-> R(0)]>>], 2, "easeInQuad"),
       U(-1, [points |-> <<[x |-> R(0), y |-> R(0)], [x |-> R(0), y |-> R(0)],
                           [x |-> R(4), y |-> R(4)], [x |-> R(8), y |-> R(8)]>>], 2,
         "easeOutBounce"),
       Circle(0, 0),
       U(-2, [points |-> Corners], 2, "linear") >>

\* the scripts the editor holds
EvalScripts ==
    << << >>,
       << Circle(0, 0),
          U(-1, [x |-> R(8)], 2, "easeInQuad"),
          U(-1, [y |-> R(8)], 2, "bogus"),
          U(-1, [z |-> R(8), opacity |-> Half], 0, "easeOutBounce"),
          U(-1, [scale |-> R(3)], 2, "") >>,
       << C("addRect", NoId, [x |-> R(0), y |-> R(0), width |-> R(4), height |-> R(2)], R(0), 0),
          C("wait", NoId, NoProps, R(0), 1),
          Together(<< << U(-1, [x |-> R(8)], 2, "linear") >>,
                      << U(-1, [y |-> R(8)], 2, "easeOutQuad") >>,
                      << U(-1, [z |-> R(8)], 2, "easeInOutQuad") >>,
                      << U(-1, [width |-> R(8)], 2, "easeInCubic") >>,
                      << U(-1, [height |-> R(8)], 2, "easeOutCubic") >>,
                      << U(-1, [scale |-> R(8)], 2, "easeInOutCubic") >>,
                      << U(-1, [opacity |-> R(0)], 2, "easeOutBounce") >>,
                      << U(-1, [shadowBlur |-> R(64)], 2, "easeOutElastic") >> >>) >>,
       << Circle(0, 0),
          U(-1, [x |-> R(8)], 2, "toString"),
          U(-1, [y |-> R(8)], 2, "hasOwnProperty") >>,
       << Text("HELLO"), Text("7"), Text("HI"),
          Together(<< << C("count", -1, NoProps, R(12), 2) >>,
                      << C("count", -2, NoProps, R(12), 2) >>,
                      << C("typeWriter", -3, NoProps, R(0), 2) >> >>) >>,
       << Circle(8, 0),
          C("wiggle", -1, NoProps, 10, 2),
          Together(<< << C("pulse", -1, NoProps, <<6, 5>>, 2) >>,
                      << C("shake", -1, NoProps, R(10), 2) >>,
                      << C("glow", -1, [color |-> "gold", strength |-> R(10)], R(0), 2) >> >>) >>,
       << Circle(0, 0),
          Together(<< << C("wait", NoId, NoProps, R(0), 2), U(-1, [x |-> R(8)], 0, "linear") >>,
                      << U(-1, [x |-> R(16)], 4, "linear") >>,
                      << C("moveTo", -1, [y |-> R(8)], R(0), 2) >>,
                      << C("moveTo", -1, [y |-> R(16)], R(0), 0) >>,
                      << C("changeColor", -1, NoProps, "red", 2) >>,
                      << C("changeColor", -1, NoProps, "blue", 0) >> >>) >>,
       << C("wait", NoId, NoProps, R(0), 1),
          Call("addScene", NoId, [x |-> R(16), y |-> R(0), scale |-> R(2)], R(0), 0, "",
               << Circle(2, 0),
                  C("fadeOut", -1, NoProps, R(0), 2),
                  C("addRect", NoId, [x |-> R(0), y |-> R(3), width |-> R(4), height |-> R(2),
                                      opacity |-> Half], R(0), 0) >>),
          Call("rotate", -1, NoProps, 90, 0, "CW", NoTasks),
          C("moveTo", -1, [x |-> R(0)], R(0), 2) >>,
       << Circle(0, 0),
          C("arc", -1, [x |-> R(4), y |-> R(0)], 180, 2),
          C("resize", -1, NoProps, R(6), 2),
          Call("rotate", -1, NoProps, -180, 2, "CCW", NoTasks) >>,
       << C("wait", NoId, NoProps, R(0), 3),
          Circle(0, 8),
          C("moveBy", -1, [x |-> R(-8)], R(0), 2) >>,
       << Text("HELLO"),
          U(-1, [color |-> "red", text |-> Chars("HI"), anchor |-> [x |-> R(0), y |-> R(1)]], 2,
            "easeInQuad"),
          C("fadeOut", -1, NoProps, R(0), 0),
          C("fadeIn", -1, NoProps, R(0), 2) >>,
       << Circle(0, 0),
          C("moveTo", -2, [x |-> R(8)], R(0), 2) >>,
       << Circle(0, 0),
          C("wait", NoId, NoProps, R(0), 1),
          U(-1, [x |-> R(8)], 2, "__proto__") >>,
       << Circle(0, 0),
          U(-1, [x |-> R(8)], 2, "__proto__") >>,
       << C("wait", NoId, NoProps, R(0), 1),
          Call("addScene", NoId, [x |-> R(16), y |-> R(0)], R(0), 0, "",
               << Circle(2, 0),
                  C("moveTo", -1, [x |-> R(8)], R(0), 2) >>) >>,
       << Text("HELLO"), Text("HELLO"),
          Together(<< << C("typeWriter", -1, NoProps, R(0), 5) >>,
                      << C("typeWriter", -2, NoProps, R(0), 2) >> >>) >>,
       << Text("HELLO"),
          C("wait", NoId, NoProps, R(0), 1),
          U(-1, [text |-> Chars("HI"), color |-> "red"], 2, "easeOutCubic") >>,
       MoveScript(0, 2), MoveScript(1, 2), MoveScript(1, 4), MoveScript(2, 2),
       NestedGroups, ArcThenMove, Reshape,
       << Circle(0, 0), Circle(8, 0),
          C("wait", NoId, NoProps, R(0), 1),
          U(-1, [parentId |-> -1], 0, "linear") >> >>

InitEval ==
    /\ currentTime = 0
    /\ actions = << >>
    /\ initialObjects = << >>
    /\ currentObjectStates = << >>
    /\ nextId = 1
    /\ threw = FALSE
    /\ steps = 0
    /\ last = C("new", NoId, NoProps, R(0), 0)
    /\ pre = NewVideoContext(1)
    /\ frames = << >>
    /\ player = NewPlayer

\* what one query adds to the answers, and the timeline it leaves
Answered(r, time) ==
    /\ frames' = Append(frames, [time |-> time, objects |-> r.objects])
    /\ currentTime' = r.timeline.duration
    /\ actions' = r.timeline.actions
    /\ initialObjects' = r.timeline.objects
    /\ UNCHANGED <<threw, last>>

\* the evaluator raised inside the render effect: nothing catches it, the player is gone
Crashed ==
    /\ threw' = TRUE
    /\ last' = Call("crash", NoId, NoProps, R(0), 0, "", NoTasks)
    /\ UNCHANGED <<currentTime, actions, initialObjects, frames>>

\* the render effect on the outcome of its call
Queried(r, time) == IF r.err THEN Crashed ELSE Answered(r, time)

\* the timeline compile keeps, and what its initial render at time 0 leaves: the
\* answer, or the error the catch block shows when the evaluator raised
Kept(context, script, r) ==
    /\ currentTime' = context.currentTime
    /\ actions' = context.actions
    /\ initialObjects' = context.initialObjects
    /\ currentObjectStates' = context.currentObjectStates
    /\ nextId' = context.nextId
    /\ threw' = r.err
    /\ pre' = context
    /\ frames' = IF r.err THEN << >> ELSE <<[time |-> 0, objects |-> r.objects]>>
    /\ last' = Call("compile", NoId, NoProps, R(0), 0, "", script)
    /\ steps' = 0

\* the builder each script leaves: runScript(context, Scenes) on a new VideoContext
Contexts == [k \in 1..Len(EvalScripts) |-> RunScript(NewVideoContext(1), EvalScripts[k])]

\* the initial render of each script's timeline: renderSceneAtTime(data, 0)
InitialRenders == [k \in 1..Len(EvalScripts) |-> renderCall(getTimeline(Contexts[k]), 0)]

\* compile got through script k: the timeline is kept and rendered at time 0
Compiled(k) == Kept(Contexts[k], EvalScripts[k], InitialRenders[k])

\* compile caught an error of the script: the error is shown, the timeline stays
CompileFailed ==
    /\ threw' = TRUE
    /\ UNCHANGED <<currentTime, actions, initialObjects, currentObjectStates, nextId, steps,
                   last, pre, frames>>

\* a compile that keeps whatever the script built before it raised
RunAndKeep_Partial(k) == Compiled(k)

\* try { runScript; install } catch { setError } on script k
RunAndKeep(k) == IF Contexts[k].err THEN CompileFailed ELSE Compiled(k)

\* App.compile on the script the editor holds
Compile ==
    /\ last.op \in {"new", "compile"}
    /\ \E k \in 1..Len(EvalScripts) : RunAndKeep(k)
    /\ UNCHANGED player

\* the render effect: the current time changed and the timeline is queried at it
Render ==
    /\ last.op = "compile"
    /\ steps < MaxQueries
    /\ \E time \in QueryTimes : Queried(renderCall(getTimeline(Builder), time), time)
    /\ steps' = steps + 1
    /\ UNCHANGED <<currentObjectStates, nextId, pre, player>>

NextEval == Compile \/ Render

SpecEval == InitEval /\ [][NextEval]_vars

\* ------------------------------------------------------------------------
\* The transport: compile, play and pause, skip back, the scrub slider and the
\* animation loop.  Each event is taken with the re-render and the effects it
\* causes; the render effect on the time shown is Render above.
\* ------------------------------------------------------------------------
\* seconds of the timeline in the player's unit
Hundredths(seconds) == 100 * seconds

\* frame-to-frame times the browser may deliver, in hundredths
Deltas == {0, 50, 120}

\* positions the slider is dragged to, in steps of 0.01
SliderStops == {0, 1, 50, 100, 250, 400}

\* max={duration || 1}
sliderMax(duration) == IF duration = 0 THEN Hundredths(1) ELSE duration

\* useEffect(..., [isPlaying, duration]): the cleanup cancels the requested frame,
\* then playing clears previousTimeRef and requests a frame with this render's animate
playEffect(p) ==
    IF p.isPlaying
    THEN [p EXCEPT !.previousTimeRef = FALSE,
                   !.requestRef = [duration |-> p.duration, isPlaying |-> TRUE]]
    ELSE [p EXCEPT !.requestRef = NoFrame]

\* the state after the re-render: the effect runs when one of its dependencies changed
rerendered(old, new) ==
    IF new.isPlaying # old.isPlaying \/ new.duration # old.duration THEN playEffect(new) ELSE new

\* setCurrentTime(prev => ...) of animate, with the duration its closure holds
advance(p, deltaTime) ==
    IF p.currentTime + deltaTime >= p.requestRef.duration
    THEN [p EXCEPT !.isPlaying = FALSE, !.currentTime = p.requestRef.duration]
    ELSE [p EXCEPT !.currentTime = p.currentTime + deltaTime]

\* animate(time): deltaTime after the frame before, when there was one
animate(p, deltaTime) ==
    [(IF p.previousTimeRef THEN advance(p, deltaTime) ELSE p) EXCEPT !.previousTimeRef = TRUE]

\* setDuration(data.duration); setCurrentTime(0); setIsPlaying(false)
installed(p, data) ==
    [p EXCEPT !.duration = Hundredths(data.duration), !.currentTime = 0, !.isPlaying = FALSE]

\* onClick of the skip-back button
skipBack(p) == [p EXCEPT !.isPlaying = FALSE, !.currentTime = 0]

\* onClick of the play/pause button
togglePlay(p) ==
    [p EXCEPT !.currentTime = IF p.currentTime >= p.duration THEN 0 ELSE p.currentTime,
              !.isPlaying = ~p.isPlaying]

\* onChange of the slider
scrubTo(p, value) == [p EXCEPT !.isPlaying = FALSE, !.currentTime = value]

InitPlayer == InitEval

\* the events the player has seen
PlayerEvents == {"new", "compile", "skipBack", "togglePlay", "scrub", "animate"}

\* the mount effect has compiled the script once
Mounted == last.op \in PlayerEvents /\ (last.op # "new" \/ threw)

\* a transport event: the timeline stays, the player changes
Transport(op, arg, p) ==
    /\ player' = rerendered(player, p)
    /\ last' = C(op, NoId, NoProps, R(0), arg)
    /\ UNCHANGED <<currentTime, actions, initialObjects, currentObjectStates, nextId, threw, steps,
                   pre, frames>>

\* App.compile, from the mount effect or the Run Script button
PlayerCompile ==
    /\ last.op \in PlayerEvents
    /\ \E k \in 1..Len(EvalScripts) :
           /\ RunAndKeep(k)
           /\ player' = IF Contexts[k].err THEN player
                         ELSE rerendered(player, installed(player, getTimeline(Contexts[k])))

SkipBack == Mounted /\ Transport("skipBack", 0, skipBack(player))

TogglePlay == Mounted /\ Transport("togglePlay", 0, togglePlay(player))

Scrub ==
    /\ Mounted
    /\ \E value \in SliderStops :
           /\ value <= sliderMax(player.duration)
           /\ Transport("scrub", value, scrubTo(player, value))

\* the browser runs the requested frame
AnimationFrame ==
    /\ Mounted
    /\ player.requestRef # NoFrame
    /\ \E deltaTime \in Deltas : Transport("animate", deltaTime, animate(player, deltaTime))

NextPlayer == PlayerCompile \/ SkipBack \/ TogglePlay \/ Scrub \/ AnimationFrame

SpecPlayer == InitPlayer /\ [][NextPlayer]_vars

\* ------------------------------------------------------------------------
\* The resolver on arbitrary object maps: any parent reference, cycles and
\* references to ids that name no object included
\* ------------------------------------------------------------------------
MaxObjects == 4

\* what parentId may hold: nothing, the id of an object, or an id that names none
ParentChoices == 0..(MaxObjects + 1)

\* object i of a map, with the parent reference it is given
LinkedObject(i, parent) ==
    [createBaseObject("CIRCLE", [x |-> R(i), y |-> R(1)]) EXCEPT !.radius = R(1),
                                                                  !.parentId = parent]

\* before a timeline is handed over: no objects, no actions, nothing drawn
InitResolve ==
    /\ initialObjects = << >>
    /\ currentObjectStates = << >>
    /\ currentTime = 0
    /\ actions = << >>
    /\ nextId = 1
    /\ threw = FALSE
    /\ steps = 0
    /\ last = C("new", NoId, NoProps, R(0), 0)
    /\ pre = NewVideoContext(1)
    /\ frames = << >>
    /\ player = NewPlayer

\* a timeline with no actions over a map of n objects with any parent references
Load ==
    /\ last.op = "new"
    /\ \E n \in 0..MaxObjects : \E parents \in [1..n -> ParentChoices] :
           /\ initialObjects' = [i \in 1..n |-> LinkedObject(i, parents[i])]
           /\ currentObjectStates' = [i \in 1..n |-> LinkedObject(i, parents[i])]
           /\ nextId' = n + 1
    /\ last' = C("load", NoId, NoProps, R(0), 0)
    /\ UNCHANGED <<currentTime, actions, threw, steps, pre, frames, player>>

\* renderSceneAtTime on the timeline, with the calls of resolved.set it made
Resolve ==
    /\ last.op = "load"
    /\ frames' = <<[time |-> 0,
                    objects |-> renderSceneAtTime(getTimeline(Builder), 0),
                    visits |-> visitsOf(localSceneAtTime(getTimeline(Builder), 0))]>>
    /\ steps' = steps + 1
    /\ last' = C("render", NoId, NoProps, R(0), 0)
    /\ UNCHANGED <<currentTime, actions, initialObjects, currentObjectStates, nextId, threw, pre,
                   player>>

NextResolve == Load \/ Resolve

\* the step in which the call made on a loaded timeline returns
Returns ==
    /\ last.op = "load"
    /\ last' = C("render", NoId, NoProps, R(0), 0)

\* the call is synchronous: once made it runs until it returns, if it ever does
SpecResolve == InitResolve /\ [][NextResolve]_vars /\ WF_last(Returns)

\* ------------------------------------------------------------------------
\* The Euler decomposition on every orientation made of quarter turns
\* ------------------------------------------------------------------------
MaxTurn == 4

\* the angles tried on each axis, in quarter turns
Turns == (-MaxTurn)..MaxTurn

\* an object turned by the given quarter turns about X, Y and Z
TurnedObject(qx, qy, qz) ==
    [createBaseObject("RECT", [x |-> R(0), y |-> R(0)]) EXCEPT !.rotationX = R(qx),
                                                                !.rotationY = R(qy),
                                                                !.rotation = R(qz)]

\* before an orientation is chosen
InitEuler == InitResolve

\* one object with any orientation made of quarter turns
Orient ==
    /\ last.op = "new"
    /\ \E qx \in Turns, qy \in Turns, qz \in Turns :
           /\ initialObjects' = [i \in {1} |-> TurnedObject(qx, qy, qz)]
           /\ currentObjectStates' = [i \in {1} |-> TurnedObject(qx, qy, qz)]
    /\ nextId' = 2
    /\ last' = C("orient", 1, NoProps, R(0), 0)
    /\ UNCHANGED <<currentTime, actions, threw, steps, pre, frames, player>>

\* the object's matrix, the angles extracted from it and the matrix built from those
Decompose ==
    /\ last.op = "orient"
    /\ frames' = <<[time |-> 0,
                    matrix |-> createRotationMatrix(initialObjects[1].rotationX,
                                                    initialObjects[1].rotationY,
                                                    initialObjects[1].rotation),
                    euler |-> extractEuler(createRotationMatrix(initialObjects[1].rotationX,
                                                                initialObjects[1].rotationY,
                                                                initialObjects[1].rotation))]>>
    /\ steps' = steps + 1
    /\ last' = C("extractEuler", 1, NoProps, R(0), 0)
    /\ UNCHANGED <<currentTime, actions, initialObjects, currentObjectStates, nextId, threw, pre,
                   player>>

NextEuler == Orient \/ Decompose

SpecEuler == InitEuler /\ [][NextEuler]_vars

\* ------------------------------------------------------------------------
\* Properties of one call (checked on the state after it: last is the call,
\* pre the builder before it)
\* ------------------------------------------------------------------------
UpdateVerbs == {"update", "moveTo", "moveBy", "moveZ", "scale", "rotateX", "rotateY", "rotateBy",
                "resize", "changeColor", "fadeOut", "fadeIn"}
MutationVerbs == UpdateVerbs \cup {"arc", "rotate", "count", "typeWriter", "wiggle", "pulse",
                                  "shake", "glow"}

\* the action the call appended, and the cached state the call found
Appended == actions[Len(actions)]
Cached == pre.currentObjectStates[last.id]

\* a mutation verb was called on an object the cache holds
OnExisting == last.op \in MutationVerbs /\ last.id \in DOMAIN pre.currentObjectStates

\* the start value of the appended action is what the cache held; verbs other than typeWriter
StartReadFromCache(a, c, cur) ==
    CASE c.op \in UpdateVerbs ->
             /\ DOMAIN a.startValue = DOMAIN a.endValue
             /\ \A k \in DOMAIN a.startValue : a.startValue[k] = cur[k]
      [] c.op \in {"rotate", "wiggle"} -> a.startValue = cur.rotation
      [] c.op = "pulse" -> a.startValue = cur.scale
      [] c.op = "shake" -> a.startValue = cur.x
      [] c.op = "glow" -> a.startValue = [blur |-> cur.shadowBlur, color |-> cur.shadowColor]
      [] c.op = "count" -> a.startValue = ParseFloat(TextOr(cur.text, <<"0">>))
      [] c.op = "arc" ->
             a.startValue = [centerX |-> c.props.x, centerY |-> c.props.y,
                             radius |-> Hypot(RSub(cur.x, c.props.x), RSub(cur.y, c.props.y)),
                             startAngle |-> Atan2Q(RSub(cur.y, c.props.y), RSub(cur.x, c.props.x))]

\* exactly one action appended, on the target, stamped with the clock of the call,
\* and the clock advanced by the duration
OneActionStamped ==
    /\ ~threw
    /\ Len(actions) = Len(pre.actions) + 1
    /\ SubSeq(actions, 1, Len(pre.actions)) = pre.actions
    /\ Appended.objectId = last.id
    /\ Appended.startTime = pre.currentTime
    /\ Appended.duration = last.d
    /\ currentTime = pre.currentTime + last.d

\* C1 as stated: every mutation verb, typeWriter included, takes its start value from
\* the cache.  typeWriter animates the number of characters shown; the cache shows
\* all of the text.
C1_StartAlwaysFromCache ==
    OnExisting =>
        /\ OneActionStamped
        /\ IF last.op = "typeWriter"
           THEN Appended.startValue = R(Len(TextOr(Cached.text, << >>)))
           ELSE StartReadFromCache(Appended, last, Cached)

\* C1 (amended): a mutation verb called on an existing object with duration d appends
\* exactly one action, whose objectId is the target, whose startTime is the clock at
\* the call and whose start value is read from the cached state at the call, and
\* leaves the clock at the previous clock + d; typeWriter alone stores the constant
\* start value 0 and captures the cached text as the end value.
C1_OneActionPerVerb ==
    OnExisting =>
        /\ OneActionStamped
        /\ IF last.op = "typeWriter"
           THEN Appended.startValue = R(0) /\ Appended.endValue = TextOr(Cached.text, << >>)
           ELSE StartReadFromCache(Appended, last, Cached)

\* a verb with a non-zero duration read a cached value that an earlier verb had changed
C1_Witness ==
    /\ OnExisting
    /\ last.op = "moveBy"
    /\ last.d = 2
    /\ pre.currentTime > 0
    /\ Cached.x # pre.initialObjects[last.id].x
    /\ Appended.startValue.x = Cached.x

\* C8: an id-taking verb called with an id the current-state map does not hold raises,
\* appends no action and leaves the clock and both object maps as they were.
C8_UnknownIdRaises ==
    (last.op \in MutationVerbs /\ last.id \notin DOMAIN pre.currentObjectStates) =>
        /\ threw
        /\ actions = pre.actions
        /\ currentTime = pre.currentTime
        /\ initialObjects = pre.initialObjects
        /\ currentObjectStates = pre.currentObjectStates

\* a wrapper over update was called with an unknown id on a builder that holds objects
C8_Witness ==
    /\ last.op = "fadeOut"
    /\ last.id \notin DOMAIN pre.currentObjectStates
    /\ threw
    /\ pre.actions # << >>


\* ------------------------------------------------------------------------
\* What a callback does, read off its calls
\* ------------------------------------------------------------------------
CreationOps == {"addCircle", "addRect", "addText", "addPolygon", "addGroup"}

RECURSIVE ClockAdvance(_)
RECURSIVE MaxAdvance(_)
RECURSIVE EmitCount(_)
RECURSIVE EmitTotal(_)
RECURSIVE FirstOffset(_)
RECURSIVE FirstOffsetOf(_)

\* by how much a callback whose calls all succeed moves the clock of its builder
ClockAdvance(script) ==
    IF Len(script) = 0 THEN 0
    ELSE (CASE Head(script).op = "playTogether" -> MaxAdvance(Head(script).tasks)
            [] Head(script).op \in CreationOps \cup {"addScene"} -> 0
            [] OTHER -> Head(script).d)
         + ClockAdvance(Tail(script))

\* the largest advance among tasks, 0 for none
MaxAdvance(tasks) ==
    IF Len(tasks) = 0 THEN 0 ELSE Max(ClockAdvance(Head(tasks)), MaxAdvance(Tail(tasks)))

\* how many actions a callback whose calls all succeed appends to its builder
EmitCount(script) ==
    IF Len(script) = 0 THEN 0
    ELSE (CASE Head(script).op = "playTogether" -> EmitTotal(Head(script).tasks)
            [] Head(script).op = "addScene" -> 1 + EmitCount(Head(script).tasks)
            [] Head(script).op = "wait" -> 0
            [] OTHER -> 1)
         + EmitCount(Tail(script))

EmitTotal(tasks) ==
    IF Len(tasks) = 0 THEN 0 ELSE EmitCount(Head(tasks)) + EmitTotal(Tail(tasks))

\* the clock, counted from the start of the callback, at which it appends its first action
FirstOffset(script) ==
    IF EmitCount(<<Head(script)>>) > 0
    THEN (IF Head(script).op = "playTogether" THEN FirstOffsetOf(Head(script).tasks) ELSE 0)
    ELSE ClockAdvance(<<Head(script)>>) + FirstOffset(Tail(script))

\* the same for the first task of a list that appends anything
FirstOffsetOf(tasks) ==
    IF EmitCount(Head(tasks)) > 0 THEN FirstOffset(Head(tasks)) ELSE FirstOffsetOf(Tail(tasks))

\* playTogether returned
Joined == last.op = "playTogether" /\ ~threw

\* the first action that task i of the call appended
FirstActionOf(i) == actions[Len(pre.actions) + EmitTotal(SubSeq(last.tasks, 1, i - 1)) + 1]

\* after the call the clock is s plus the largest advance of a task
JoinedAtMax ==
    /\ currentTime = pre.currentTime + MaxAdvance(last.tasks)
    /\ Len(actions) = Len(pre.actions) + EmitTotal(last.tasks)
    /\ SubSeq(actions, 1, Len(pre.actions)) = pre.actions

\* C2 as stated: the first action every task emits has startTime s, and the clock ends
\* at s + the largest advance.
C2_FirstActionAtStart ==
    Joined =>
        /\ JoinedAtMax
        /\ \A i \in 1..Len(last.tasks) :
               EmitCount(last.tasks[i]) > 0 => FirstActionOf(i).startTime = pre.currentTime

\* C2 (amended): every task of playTogether begins with the clock equal to s, the clock
\* of the call: the first action a task emits has startTime s plus the time the task let
\* pass before it (s when the first call of the task emits an action); after the call
\* the clock is s + the largest clock advance of a task, s for no task; also when a task
\* calls playTogether.
C2_TasksStartTogether ==
    Joined =>
        /\ JoinedAtMax
        /\ \A i \in 1..Len(last.tasks) :
               EmitCount(last.tasks[i]) > 0 =>
                   FirstActionOf(i).startTime = pre.currentTime + FirstOffset(last.tasks[i])

\* a task that itself called playTogether, joined with a shorter task at a clock past 0
C2_Witness ==
    /\ Joined
    /\ pre.currentTime > 0
    /\ Len(last.tasks) = 2
    /\ last.tasks[1][1].op = "playTogether"
    /\ currentTime = pre.currentTime + 3
    /\ FirstActionOf(2).startTime = pre.currentTime

\* ------------------------------------------------------------------------
\* Sub-scenes
\* ------------------------------------------------------------------------
\* addScene returned
Embedded == last.op = "addScene" /\ ~threw

\* the nested builder after the scene function ran on it
NestedBuilder == RunScript(NewVideoContext(pre.nextId + 1), last.tasks)

\* C9: addScene called at outer clock c creates one group, imports every initial object
\* of the nested builder with its parent set to that group, and imports every action of
\* the nested builder in the nested order with startTime = nested startTime + c and all
\* other fields unchanged.
C9_SceneImported ==
    Embedded =>
        /\ DOMAIN initialObjects =
               DOMAIN pre.initialObjects \cup {pre.nextId} \cup DOMAIN NestedBuilder.initialObjects
        /\ initialObjects[pre.nextId].type = "GROUP"
        /\ \A i \in DOMAIN pre.initialObjects : initialObjects[i] = pre.initialObjects[i]
        /\ \A i \in DOMAIN NestedBuilder.initialObjects :
               initialObjects[i] = [NestedBuilder.initialObjects[i] EXCEPT !.parentId = pre.nextId]
        /\ Len(actions) = Len(pre.actions) + 1 + Len(NestedBuilder.actions)
        /\ SubSeq(actions, 1, Len(pre.actions)) = pre.actions
        /\ actions[Len(pre.actions) + 1].type = "CREATE"
        /\ actions[Len(pre.actions) + 1].objectId = pre.nextId
        /\ \A k \in 1..Len(NestedBuilder.actions) :
               actions[Len(pre.actions) + 1 + k] =
                   [NestedBuilder.actions[k] EXCEPT !.startTime = @ + pre.currentTime]

\* a scene with actions that start past its own time 0 was embedded at a clock past 0
C9_Witness ==
    /\ Embedded
    /\ pre.currentTime > 0
    /\ Len(NestedBuilder.actions) >= 3
    /\ NestedBuilder.actions[Len(NestedBuilder.actions)].startTime > 0
    /\ Appended.startTime > pre.currentTime

\* a scene whose only content is a scene whose only content is one circle was embedded
NestedTwice ==
    /\ Embedded
    /\ Len(last.tasks) = 1
    /\ last.tasks[1].op = "addScene"
    /\ Len(last.tasks[1].tasks) = 1
    /\ last.tasks[1].tasks[1].op = "addCircle"

\* C10: an object created at local (lx, ly) in a sub-scene embedded at (ix, iy) in a
\* sub-scene embedded at (ox, oy), all scales 1 and rotations 0, is rendered at
\* (ox + ix + lx, oy + iy + ly).
C10_NestedFramesCompose ==
    NestedTwice =>
        LET outer == last.props
            inner == last.tasks[1].props
            local == last.tasks[1].tasks[1].props
            shown == renderSceneAtTime(getTimeline(Builder), currentTime)[pre.nextId + 2]
        IN  /\ shown.x = RAdd(RAdd(outer.x, inner.x), local.x)
            /\ shown.y = RAdd(RAdd(outer.y, inner.y), local.y)


\* ------------------------------------------------------------------------
\* Properties of a query (checked on the last answer: pre is the builder
\* that compile kept)
\* ------------------------------------------------------------------------
\* the last answer and the time it was asked for
Frame == frames[Len(frames)]
Acts == pre.actions
Roots == {i \in DOMAIN pre.initialObjects : pre.initialObjects[i].parentId = NoId}

\* the properties the rule of an action assigns
WrittenKeys(a) ==
    CASE a.type = "UPDATE" -> DOMAIN a.endValue
      [] a.type \in {"ROTATE", "WIGGLE"} -> {"rotation"}
      [] a.type = "ARC" -> {"x", "y"}
      [] a.type = "SHAKE" -> {"x"}
      [] a.type = "PULSE" -> {"scale"}
      [] a.type = "COUNT" -> {"text"}
      [] a.type = "TYPEWRITER" -> {"text", "opacity"}
      [] a.type = "GLOW" -> {"shadowBlur", "shadowColor"}
      [] OTHER -> {}

\* action j comes after action k in the order of application
After(j, k) ==
    \/ Acts[j].startTime > Acts[k].startTime
    \/ Acts[j].startTime = Acts[k].startTime /\ j > k

Clamp01(r) == IF RLt(r, R(0)) THEN R(0) ELSE IF RLt(R(1), r) THEN R(1) ELSE r
ExpectedRaw(a, t) ==
    IF a.duration = 0 THEN R(1) ELSE Clamp01(Norm(t - a.startTime, a.duration))
ExpectedEased(a, p) == IF a.easing \in EasingNames THEN Easings(a.easing, p) ELSE p

\* the numeric properties an action interpolates, with their two ends
LerpKeys(a) ==
    CASE a.type = "UPDATE" ->
             {key \in DOMAIN a.endValue :
                 IsNumberAt(key, a.startValue[key]) /\ IsNumberAt(key, a.endValue[key])}
      [] a.type = "ROTATE" -> {"rotation"}
      [] a.type = "GLOW" -> {"shadowBlur"}
      [] OTHER -> {}
LerpStart(a, key) ==
    CASE a.type = "UPDATE" -> a.startValue[key]
      [] a.type = "ROTATE" -> a.startValue
      [] a.type = "GLOW" -> a.startValue.blur
LerpEnd(a, key) ==
    CASE a.type = "UPDATE" -> a.endValue[key]
      [] a.type = "ROTATE" -> a.endValue
      [] a.type = "GLOW" -> a.endValue.blur

\* no other action of the timeline writes key on the object of action k
SoleWriter(k, key) ==
    \A j \in (1..Len(Acts)) \ {k} :
        Acts[j].objectId = Acts[k].objectId => key \notin WrittenKeys(Acts[j])

\* C3 on one interpolated property of a root object that a single action writes: the
\* action is applied exactly when startTime <= t, with rawProgress 1 for duration 0 and
\* clamp((t - startTime)/duration, 0, 1) otherwise, eased by the named easing, or not
\* eased when the name is absent or none of the registry.
ProgressRule(k, key, t) ==
    Frame.objects[Acts[k].objectId][key] =
        IF Acts[k].startTime <= t
        THEN Lerp(LerpStart(Acts[k], key), LerpEnd(Acts[k], key),
                  ExpectedEased(Acts[k], ExpectedRaw(Acts[k], t)))
        ELSE pre.initialObjects[Acts[k].objectId][key]

\* C3: renderSceneAtTime(timeline, t) applies exactly the actions with startTime <= t,
\* each with rawProgress = 1 when its duration is 0 and clamp((t - startTime)/duration,
\* 0, 1) otherwise, and easedProgress = the named easing of rawProgress, or rawProgress
\* when the easing name is absent or not in the registry.
C3_ProgressAndEasing ==
    frames # << >> =>
        \A k \in 1..Len(Acts) :
            Acts[k].objectId \in Roots =>
                \A key \in LerpKeys(Acts[k]) :
                    SoleWriter(k, key) => ProgressRule(k, key, Frame.time)

\* no action has started at t
NothingStarted(t) == \A k \in 1..Len(Acts) : Acts[k].startTime > t

\* a child of an unrotated root: its position, scale and opacity under the root's
ChildOfPlainRoot(i) ==
    /\ pre.initialObjects[i].parentId \in Roots
    /\ pre.initialObjects[pre.initialObjects[i].parentId].rotation = R(0)
    /\ pre.initialObjects[pre.initialObjects[i].parentId].rotationX = R(0)
    /\ pre.initialObjects[pre.initialObjects[i].parentId].rotationY = R(0)
UnderRoot(child, root) ==
    [child EXCEPT !.x = RAdd(root.x, RMul(child.x, root.scale)),
                  !.y = RAdd(root.y, RMul(child.y, root.scale)),
                  !.z = RAdd(root.z, RMul(child.z, root.scale)),
                  !.scale = RMul(child.scale, root.scale),
                  !.opacity = RMul(child.opacity, root.opacity)]

\* C4: when no action has startTime <= t, renderSceneAtTime returns every object with
\* its initial stored state; a child's entry is its initial state resolved through the
\* initial transforms of its ancestors.
C4_InitialState ==
    (frames # << >> /\ NothingStarted(Frame.time)) =>
        /\ DOMAIN Frame.objects = DOMAIN pre.initialObjects
        /\ \A i \in Roots : Frame.objects[i] = pre.initialObjects[i]
        /\ \A i \in DOMAIN pre.initialObjects :
               ChildOfPlainRoot(i) =>
                   Frame.objects[i] = UnderRoot(pre.initialObjects[i],
                                                pre.initialObjects[pre.initialObjects[i].parentId])
        /\ Frame.objects = resolveHierarchy(pre.initialObjects)

\* a timeline with actions and a scaled sub-scene was asked at a time before all of them
C4_Witness ==
    /\ frames # << >>
    /\ Len(Acts) > 3
    /\ NothingStarted(Frame.time)
    /\ Frame.time >= 0
    /\ \E i \in DOMAIN pre.initialObjects :
           /\ ChildOfPlainRoot(i)
           /\ Frame.objects[i].x # pre.initialObjects[i].x


\* the actions selected at t, as indices of the action list
Selected(t) == {k \in 1..Len(Acts) : Acts[k].startTime <= t}

\* action k was selected at t and its duration has passed
CompletedAt(k, t) == k \in Selected(t) /\ t >= Acts[k].startTime + Acts[k].duration

\* no selected action after k in the order of application writes key on the same object
NoLaterWriter(k, key, t) ==
    \A j \in Selected(t) :
        (Acts[j].objectId = Acts[k].objectId /\ After(j, k)) => key \notin WrittenKeys(Acts[j])

\* where a completed action leaves a property: its end value, the end point of an arc,
\* the text of the final count, the whole text, or the captured base of an effect
RestValue(a, key) ==
    CASE a.type = "UPDATE" -> a.endValue[key]
      [] a.type = "ROTATE" -> a.endValue
      [] a.type \in {"WIGGLE", "SHAKE", "PULSE"} -> a.startValue
      [] a.type = "COUNT" -> NumberToString(a.endValue)
      [] a.type = "TYPEWRITER" -> IF key = "text" THEN a.endValue ELSE R(1)
      [] a.type = "GLOW" -> IF key = "shadowBlur" THEN a.endValue.blur ELSE a.endValue.color
      [] a.type = "ARC" ->
             IF key = "x"
             THEN RAdd(a.startValue.centerX,
                       RMul(a.startValue.radius, R(CosQ(RAdd(a.startValue.startAngle, a.endValue)))))
             ELSE RAdd(a.startValue.centerY,
                       RMul(a.startValue.radius, R(SinQ(RAdd(a.startValue.startAngle, a.endValue)))))

\* C5: for any action and any t >= startTime + duration, provided no action later in
\* the sort order writes the same property of the same object, the rendered property
\* equals the end value of the action exactly; for WIGGLE, SHAKE and PULSE it equals the
\* base value captured at compile time.
C5_BoundaryExact ==
    frames # << >> =>
        \A k \in 1..Len(Acts) :
            (Acts[k].objectId \in Roots /\ CompletedAt(k, Frame.time)) =>
                \A key \in WrittenKeys(Acts[k]) :
                    NoLaterWriter(k, key, Frame.time) =>
                        Frame.objects[Acts[k].objectId][key] = RestValue(Acts[k], key)

\* the properties the rule of an action assigns at t: glow leaves the colour alone at
\* progress 0
WritesAt(a, t) ==
    IF a.type = "GLOW" /\ ExpectedRaw(a, t) = R(0) THEN {"shadowBlur"} ELSE WrittenKeys(a)

\* the selected actions that write key on object o at t
Writers(o, key, t) ==
    {k \in Selected(t) : Acts[k].objectId = o /\ key \in WritesAt(Acts[k], t)}

\* the writer that comes last in the order of application
LastWriter(o, key, t) ==
    CHOOSE k \in Writers(o, key, t) : \A j \in Writers(o, key, t) \ {k} : After(k, j)

\* what the action alone makes of the object at t
AloneAt(k, t) ==
    renderSceneAtTime([duration |-> pre.currentTime, objects |-> pre.initialObjects,
                       actions |-> <<Acts[k]>>], t)[Acts[k].objectId]

\* C6: the selected actions are applied in ascending startTime order, ties in insertion
\* order; when two selected actions write the same property of the same object, the
\* rendered value is the one computed by the action with the later startTime, or by the
\* later-inserted one when the start times are equal, with no blending.
C6_LastWriterWins ==
    frames # << >> =>
        \A o \in Roots :
            \A key \in DOMAIN pre.initialObjects[o] :
                Cardinality(Writers(o, key, Frame.time)) >= 2 =>
                    Frame.objects[o][key] = AloneAt(LastWriter(o, key, Frame.time), Frame.time)[key]

\* two writers of one property, the one inserted first starting later and already
\* complete while the other is in progress; and two writers that start together
C6_Witness ==
    /\ frames # << >>
    /\ \E o \in Roots :
           /\ \E i \in Writers(o, "x", Frame.time), j \in Writers(o, "x", Frame.time) :
                  /\ i < j
                  /\ Acts[i].startTime > Acts[j].startTime
                  /\ CompletedAt(i, Frame.time)
                  /\ ~CompletedAt(j, Frame.time)
                  /\ Frame.objects[o].x = Acts[i].endValue.x
           /\ \E i \in Writers(o, "y", Frame.time), j \in Writers(o, "y", Frame.time) :
                  /\ i < j
                  /\ Acts[i].startTime = Acts[j].startTime
                  /\ Frame.objects[o].y = Acts[j].endValue.y

Grouped == last.op = "group" /\ ~threw /\ nextId = pre.nextId + 1

\* the objects the last call of group named, among those that existed
Members == {i \in DOMAIN pre.initialObjects : \E k \in 1..Len(last.arg) : last.arg[k] = i}

\* group was called without properties on two distinct existing objects
GroupedPair ==
    /\ Grouped
    /\ DOMAIN last.props = {}
    /\ Len(last.arg) = 2
    /\ Cardinality(Members) = 2

\* the builder after ungroup is called on the group just made
RoundTrip == ungroup(Builder, pre.nextId)

\* two objects hold the same position
SamePosition(o1, o2) == o1.x = o2.x /\ o1.y = o2.y /\ o1.z = o2.z

\* the evaluator puts object i of the builders b1 and b2 at the same place at time t
SameWorldPosition(b1, b2, i, t) ==
    /\ i \in DOMAIN renderSceneAtTime(getTimeline(b1), t)
    /\ i \in DOMAIN renderSceneAtTime(getTimeline(b2), t)
    /\ SamePosition(renderSceneAtTime(getTimeline(b1), t)[i],
                    renderSceneAtTime(getTimeline(b2), t)[i])

\* C11: for any distinct existing objects x and y, group([x, y]) immediately followed
\* by ungroup(groupId) restores the stored positions of x and y, in the initial-object
\* map and in the current-state map, clears their parent reference, and their rendered
\* world positions are the original ones.
C11_GroupUngroupRoundTrip ==
    GroupedPair =>
        \A i \in Members :
            /\ SamePosition(RoundTrip.initialObjects[i], pre.initialObjects[i])
            /\ SamePosition(RoundTrip.currentObjectStates[i], pre.currentObjectStates[i])
            /\ RoundTrip.initialObjects[i].parentId = NoId
            /\ RoundTrip.currentObjectStates[i].parentId = NoId
            /\ SameWorldPosition(RoundTrip, pre, i, 0)

\* C12: group(ids) places the new group object at the arithmetic mean of the positions
\* the named objects hold in the current-state cache at the moment of the call, also
\* when a member has been moved by earlier verbs.
C12_GroupAtCurrentCentroid ==
    (Grouped /\ DOMAIN last.props = {}) =>
        SamePosition(initialObjects[pre.nextId],
                     centroid(pre.currentObjectStates, foundIn(pre.currentObjectStates, last.arg)))

\* C13: the total duration of the timeline getTimeline returns is not before the end
\* of any action: duration >= startTime + duration of every action of the list.
C13_DurationCoversActions ==
    ~threw =>
        \A k \in 1..Len(actions) :
            getTimeline(Builder).duration >= actions[k].startTime + actions[k].duration

\* C14: every builder operation leaves each action appended before it at its index,
\* with the same startTime, duration, type, target and start and end values.
C14_AppendOnly ==
    [][Len(actions') >= Len(actions) /\ SubSeq(actions', 1, Len(actions)) = actions]_vars

\* a call appended several actions behind a list that was not empty: nextPage with
\* one fade per visible object, a sub-scene with its actions, a group
C14_Witness ==
    /\ last.op \in {"nextPage", "addScene", "group", "playTogether"}
    /\ Len(pre.actions) > 2
    /\ Len(actions) > Len(pre.actions) + 1
    /\ SubSeq(actions, 1, Len(pre.actions)) = pre.actions

\* ------------------------------------------------------------------------
\* Properties of a query: the settled state, raises, and the rules of one action
\* ------------------------------------------------------------------------
\* the end of action k
EndOf(k) == Acts[k].startTime + Acts[k].duration

\* every action has reached its end at t
AllEnded(t) == \A k \in 1..Len(Acts) : t >= EndOf(k)

\* the latest end of an action
LastEnd ==
    CHOOSE e \in {EndOf(k) : k \in 1..Len(Acts)} : \A k \in 1..Len(Acts) : e >= EndOf(k)

\* the answer at the latest end of an action
FinalState == renderSceneAtTime(getTimeline(pre), LastEnd)

\* C15: for a timeline whose actions all have duration >= 0, renderSceneAtTime returns
\* the same result for every t >= max over actions of (startTime + duration), in
\* particular for every t greater than the timeline duration.
C15_SettledPastTheEnd ==
    (frames # << >> /\ Len(Acts) > 0) =>
        /\ AllEnded(Frame.time) => Frame.objects = FinalState
        /\ Frame.time > getTimeline(pre).duration => Frame.objects = FinalState

\* C16: for every timeline the builder produced and every query time, negative, inside
\* or beyond the duration, renderSceneAtTime returns and never raises.
C16_EvaluatorNeverRaises == last.op # "crash"

\* the compiled script creates an object, waits, then moves it in a duration > 0
CreateWaitMove(script) ==
    /\ Len(script) = 3
    /\ script[1].op = "addCircle"
    /\ script[2].op = "wait"
    /\ script[3].op = "moveTo"
    /\ script[3].d > 0

\* an answer shows the object of the script at (x, y)
ShowsAt(frame, x, y) == frame.objects[1].x = x /\ frame.objects[1].y = y

\* the midpoint of two coordinates
MidPoint(a, b) == RDiv(RAdd(a, b), R(2))

\* the three cases of C17 on one answer, for the position A, the wait w, the target P
\* and the duration d
MoveScenario(frame, A, w, P, d) ==
    /\ frame.time <= w => ShowsAt(frame, A.x, A.y)
    /\ 2 * frame.time = 2 * w + d => ShowsAt(frame, MidPoint(A.x, P.x), MidPoint(A.y, P.y))
    /\ frame.time >= w + d => ShowsAt(frame, P.x, P.y)

\* C17: for a script that creates an object at A, waits w, then calls moveTo(obj, P, d)
\* with d > 0, renderSceneAtTime yields the object at A for every t <= w, at the
\* midpoint of A and P at t = w + d/2, and exactly at P for every t >= w + d.
C17_MoveToScenario ==
    (frames # << >> /\ CreateWaitMove(last.tasks)) =>
        MoveScenario(Frame, last.tasks[1].props, last.tasks[2].d,
                     last.tasks[3].props, last.tasks[3].d)

\* queried during the wait, at the middle of the move and after it, with three
\* different positions
C17_Witness ==
    /\ Len(frames) = 3
    /\ CreateWaitMove(last.tasks)
    /\ last.tasks[2].d > 0
    /\ frames[1].time < last.tasks[2].d
    /\ ShowsAt(frames[1], R(4), R(8))
    /\ 2 * frames[2].time = 2 * last.tasks[2].d + last.tasks[3].d
    /\ ShowsAt(frames[2], R(10), R(4))
    /\ frames[3].time >= last.tasks[2].d + last.tasks[3].d
    /\ ShowsAt(frames[3], R(16), R(0))

\* floor(n * p) for the text S of length n and 0 <= p <= 1
Revealed(S, p) ==
    CHOOSE n \in 0..Len(S) :
        /\ RLe(R(n), RMul(R(Len(S)), p))
        /\ n = Len(S) \/ RLt(RMul(R(Len(S)), p), R(n + 1))

\* action k is a typeWriter on a text object without parent, selected at t and not
\* written over by a later action
TypeWriterShown(k, t) ==
    /\ Acts[k].type = "TYPEWRITER"
    /\ Acts[k].objectId \in Roots
    /\ pre.initialObjects[Acts[k].objectId].type = "TEXT"
    /\ k \in Selected(t)
    /\ NoLaterWriter(k, "text", t)
    /\ NoLaterWriter(k, "opacity", t)

UpdateShown(k, t) ==
    /\ Acts[k].type = "UPDATE"
    /\ Acts[k].objectId \in Roots
    /\ k \in Selected(t)

\* C19: for a generic update of a color-like key with non-numeric start and end
\* values, the rendered value is the start value while easedProgress < 0.5 and the
\* end value once easedProgress >= 0.5, for every easing of the registry.
C19_ColorSwitchAtEasedHalf ==
    frames # << >> =>
        \A k \in 1..Len(Acts) :
            (UpdateShown(k, Frame.time) /\ Acts[k].easing \in EasingNames) =>
                \A key \in ColorKeys \cap DOMAIN Acts[k].endValue :
                    SoleWriter(k, key) =>
                        Frame.objects[Acts[k].objectId][key] =
                            IF RLt(ExpectedEased(Acts[k], ExpectedRaw(Acts[k], Frame.time)), Half)
                            THEN Acts[k].startValue[key]
                            ELSE Acts[k].endValue[key]

\* the keys of an update that are neither numeric, color-like, anchor nor a point list
SnapKeys(a) == DOMAIN a.endValue \ (NumericKeys \cup ColorKeys \cup {"anchor", "points"})

\* C20: for a generic update of a key that is neither numeric, color-like, anchor nor
\* a point list, with duration > 0, the rendered value is the end value once
\* progress > 0, and is still the start value at progress 0.
C20_SnapAfterStart ==
    frames # << >> =>
        \A k \in 1..Len(Acts) :
            (UpdateShown(k, Frame.time) /\ Acts[k].duration > 0) =>
                \A key \in SnapKeys(Acts[k]) :
                    SoleWriter(k, key) =>
                        Frame.objects[Acts[k].objectId][key] =
                            IF RLt(R(0), ExpectedRaw(Acts[k], Frame.time))
                            THEN Acts[k].endValue[key]
                            ELSE Acts[k].startValue[key]

\* ------------------------------------------------------------------------
\* Properties of group on no object, of rotate, and of update with an anchor
\* ------------------------------------------------------------------------
\* the last call was group and none of the ids it named was an object
GroupedNothing == last.op = "group" /\ Len(foundIn(pre.initialObjects, last.arg)) = 0

\* C21: group(ids) where no id names an existing object, an empty list or only unknown
\* ids, returns the empty string and changes nothing: no group object, no action, the
\* clock and both object maps unchanged, and it does not raise.
C21_GroupOfNothing ==
    GroupedNothing =>
        /\ ~threw
        /\ groupReturn(pre, last.arg) = NoId
        /\ actions = pre.actions
        /\ currentTime = pre.currentTime
        /\ initialObjects = pre.initialObjects
        /\ currentObjectStates = pre.currentObjectStates
        /\ nextId = pre.nextId

\* group was called with an unknown id on a builder that holds objects and actions
C21_Witness ==
    /\ GroupedNothing
    /\ Len(last.arg) > 0
    /\ Len(pre.actions) > 0
    /\ DOMAIN pre.initialObjects # {}

\* ------------------------------------------------------------------------
\* Properties of the hierarchy resolver
\* ------------------------------------------------------------------------
\* the objects before resolution, at the time of the last answer
LocalScene == localSceneAtTime(getTimeline(pre), Frame.time)

\* the objects of an answer that have a parent in it
ChildrenOf(scene, shown) ==
    {i \in DOMAIN shown : scene[i].parentId # NoId /\ scene[i].parentId \in DOMAIN shown}

\* the objects that have a parent in the last answer
Children == ChildrenOf(LocalScene, Frame.objects)

RECURSIVE ChainProduct(_, _, _)
\* the product of a property from an object up to its root
ChainProduct(objects, id, key) ==
    IF objects[id].parentId = NoId THEN objects[id][key]
    ELSE RMul(objects[id][key], ChainProduct(objects, objects[id].parentId, key))

RECURSIVE ChainSum(_, _, _)
\* the sum of a property from an object up to its root
ChainSum(objects, id, key) ==
    IF objects[id].parentId = NoId THEN objects[id][key]
    ELSE RAdd(objects[id][key], ChainSum(objects, objects[id].parentId, key))

RECURSIVE Ancestors(_, _)
Ancestors(objects, id) ==
    IF objects[id].parentId = NoId THEN {}
    ELSE {objects[id].parentId} \cup Ancestors(objects, objects[id].parentId)

RECURSIVE World2D(_, _)
\* the 2D resolver on one object: its parent first, then the object under it
World2D(objects, id) ==
    IF objects[id].parentId = NoId THEN objects[id]
    ELSE worldOf2D(objects[id], World2D(objects, objects[id].parentId))

\* a local offset scaled by the parent's world scale and turned by its world rotation
Offset(parent, local) ==
    applyMatrixToVector(createRotationMatrix(parent.rotationX, parent.rotationY, parent.rotation),
                        [x |-> RMul(local.x, parent.scale), y |-> RMul(local.y, parent.scale),
                         z |-> RMul(local.z, parent.scale)])

\* the rule of C22 for one child, its local values and its parent's world values
ResolvedUnder(w, local, parent) ==
    /\ w.x = RAdd(parent.x, Offset(parent, local).x)
    /\ w.y = RAdd(parent.y, Offset(parent, local).y)
    /\ w.z = RAdd(parent.z, Offset(parent, local).z)

\* the rule of C22 for child i of a local scene and the world-space answer made of it
HierarchyResolved(scene, shown, i) ==
    /\ ResolvedUnder(shown[i], scene[i], shown[scene[i].parentId])
    /\ shown[i].scale = ChainProduct(scene, i, "scale")
    /\ shown[i].opacity = ChainProduct(scene, i, "opacity")
    /\ World2D(scene, i).rotation = ChainSum(scene, i, "rotation")
    /\ World2D(scene, i).scale = shown[i].scale
    /\ World2D(scene, i).opacity = shown[i].opacity
    /\ \A a \in Ancestors(scene, i) : shown[a].opacity = R(0) => shown[i].opacity = R(0)

\* C22: for every object with a parent the rendered world position is the parent's
\* world position plus the local position scaled by the parent's world scale and
\* rotated by the parent's world rotation; world scale and world opacity are the
\* products along the ancestor chain; in the 2D resolver world rotation is the sum
\* along the chain; a descendant of an object with world opacity 0 has world opacity 0.
C22_HierarchyResolution ==
    frames # << >> => \A i \in Children : HierarchyResolved(LocalScene, Frame.objects, i)

\* an answer with a grandchild of a faded, scaled and turned group: the grandchild is
\* opaque on its own and its parent's world scale differs from its parent's own
C22_Witness ==
    /\ frames # << >>
    /\ \E i \in Children :
           /\ LocalScene[i].parentId \in Children
           /\ LocalScene[i].opacity = R(1)
           /\ Frame.objects[i].opacity = R(0)
           /\ Frame.objects[LocalScene[i].parentId].scale # LocalScene[LocalScene[i].parentId].scale
           /\ Frame.objects[LocalScene[i].parentId].rotation # LocalScene[LocalScene[i].parentId].rotation
           /\ Frame.objects[i].x # LocalScene[i].x

\* the requested angle of the last rotate, and the angle its target had in the cache
Requested == DegToRad(last.arg)
RotateStart == Cached.rotation

\* two angles differ by a whole number of turns
WholeTurnsApart(a, b) == RDiv(RSub(a, b), PI2)[2] = 1

\* the last call was rotate in the given direction on an existing object
Rotated(direction) == OnExisting /\ last.op = "rotate" /\ last.easing = direction

\* C23 as stated: with 'CW' the stored end value e differs from the requested angle by
\* whole turns and start < e <= start + one turn, with 'CCW' start - one turn <= e <
\* start; e is the requested angle when that satisfies the direction; the cached
\* rotation is e.
C23_WithinOneTurn ==
    /\ Rotated("CW") =>
           /\ WholeTurnsApart(Appended.endValue, Requested)
           /\ RLt(RotateStart, Appended.endValue)
           /\ RLe(Appended.endValue, RAdd(RotateStart, PI2))
           /\ currentObjectStates[last.id].rotation = Appended.endValue
    /\ Rotated("CCW") =>
           /\ WholeTurnsApart(Appended.endValue, Requested)
           /\ RLe(RSub(RotateStart, PI2), Appended.endValue)
           /\ RLt(Appended.endValue, RotateStart)
           /\ currentObjectStates[last.id].rotation = Appended.endValue

\* C23 (amended): with 'CW' the stored end value e differs from the requested angle by
\* whole turns and e > start; e is the requested angle unchanged when that is greater
\* than start, however far, and otherwise e <= start + one turn. With 'CCW' e < start;
\* e is the requested angle unchanged when that is less than start, and otherwise
\* e >= start - one turn. The cached rotation is set to e.
C23_RotateDirection ==
    /\ Rotated("CW") =>
           /\ WholeTurnsApart(Appended.endValue, Requested)
           /\ RLt(RotateStart, Appended.endValue)
           /\ IF RLt(RotateStart, Requested) THEN Appended.endValue = Requested
              ELSE RLe(Appended.endValue, RAdd(RotateStart, PI2))
           /\ currentObjectStates[last.id].rotation = Appended.endValue
    /\ Rotated("CCW") =>
           /\ WholeTurnsApart(Appended.endValue, Requested)
           /\ RLt(Appended.endValue, RotateStart)
           /\ IF RLt(Requested, RotateStart) THEN Appended.endValue = Requested
              ELSE RLe(RSub(RotateStart, PI2), Appended.endValue)
           /\ currentObjectStates[last.id].rotation = Appended.endValue

\* a clockwise rotate to an angle more than one turn behind the cached one
C23_Witness ==
    /\ Rotated("CW")
    /\ RLt(RAdd(Requested, PI2), RotateStart)
    /\ Appended.endValue # Requested

\* ------------------------------------------------------------------------
\* Properties of arc
\* ------------------------------------------------------------------------
\* the square of the distance of an object from the pivot of an arc
DistSq(o, sv) ==
    RAdd(RMul(RSub(o.x, sv.centerX), RSub(o.x, sv.centerX)),
         RMul(RSub(o.y, sv.centerY), RSub(o.y, sv.centerY)))

\* action k is an arc on an object of the scene that has started at t
ArcStarted(k, t) ==
    /\ Acts[k].type = "ARC"
    /\ Acts[k].startTime <= t
    /\ Acts[k].objectId \in DOMAIN LocalScene

\* no action applied after action k at t writes the position of its object
LastOnPosition(k, t) ==
    \A j \in 1..Len(Acts) :
        (After(j, k) /\ Acts[j].startTime <= t /\ Acts[j].objectId = Acts[k].objectId)
            => WrittenKeys(Acts[j]) \cap {"x", "y"} = {}

\* the object of arc k is at the captured radius from the pivot
OnCircle(k) ==
    DistSq(LocalScene[Acts[k].objectId], Acts[k].startValue)
        = RMul(Acts[k].startValue.radius, Acts[k].startValue.radius)

MatrixOf(o) == createRotationMatrix(o.rotationX, o.rotationY, o.rotation)

\* the three angles of an object
EulerOf(o) == [x |-> o.rotationX, y |-> o.rotationY, z |-> o.rotation]

\* row i times column j of two 3x3 matrices, rows and columns from 0
Cell(a, b, i, j) == a[3 * i + 1] * b[j + 1] + a[3 * i + 2] * b[j + 4] + a[3 * i + 3] * b[j + 7]

\* the matrix product a x b, written out cell by cell
Product(a, b) ==
    << Cell(a, b, 0, 0), Cell(a, b, 0, 1), Cell(a, b, 0, 2),
       Cell(a, b, 1, 0), Cell(a, b, 1, 1), Cell(a, b, 1, 2),
       Cell(a, b, 2, 0), Cell(a, b, 2, 1), Cell(a, b, 2, 2) >>

\* an object turned by a quarter turn about X only, or about Y only
QuarterAboutX(o) == o.rotationX = R(1) /\ o.rotationY = R(0) /\ o.rotation = R(0)
QuarterAboutY(o) == o.rotationX = R(0) /\ o.rotationY = R(1) /\ o.rotation = R(0)

\* child i is turned about the first axis under a root parent turned about the second
TurnedUnder(scene, i, childAbout, parentAbout) ==
    /\ scene[scene[i].parentId].parentId = NoId
    /\ childAbout = "X" => QuarterAboutX(scene[i])
    /\ childAbout = "Y" => QuarterAboutY(scene[i])
    /\ parentAbout = "X" => QuarterAboutX(scene[scene[i].parentId])
    /\ parentAbout = "Y" => QuarterAboutY(scene[scene[i].parentId])

\* the world rotation of child i is the extraction of parent matrix x child matrix
ComposedUnder(scene, shown, i) ==
    /\ EulerOf(shown[i]) =
           extractEuler(Product(MatrixOf(shown[scene[i].parentId]), MatrixOf(scene[i])))
    /\ MatrixOf(shown[i]) = Product(MatrixOf(shown[scene[i].parentId]), MatrixOf(scene[i]))

\* the two orders of a quarter turn about X and one about Y give different answers
OrderMatters(scene, shown, kids) ==
    \A i \in kids, j \in kids :
        (TurnedUnder(scene, i, "X", "Y") /\ TurnedUnder(scene, j, "Y", "X"))
            => EulerOf(shown[i]) # EulerOf(shown[j])

\* C25: the world rotation of a child is the Euler extraction of (parent rotation
\* matrix x child rotation matrix), the extracted angles stand for that product, and a
\* parent turned 90 degrees about Y with a child turned 90 degrees about X resolves to
\* another world rotation than a parent turned about X with a child turned about Y.
C25_RotationComposition ==
    frames # << >> =>
        /\ \A i \in Children : ComposedUnder(LocalScene, Frame.objects, i)
        /\ OrderMatters(LocalScene, Frame.objects, Children)

\* an answer that holds both orders: X under Y and Y under X
C25_Witness ==
    /\ frames # << >>
    /\ \E i \in Children, j \in Children :
           /\ TurnedUnder(LocalScene, i, "X", "Y")
           /\ TurnedUnder(LocalScene, j, "Y", "X")
           /\ EulerOf(Frame.objects[j]) = [x |-> R(1), y |-> R(0), z |-> R(1)]

\* the last call was update with an anchor on an existing object
AnchorUpdate == OnExisting /\ last.op = "update" /\ "anchor" \in DOMAIN last.props

\* the call gave neither x nor y
NoPosition == "x" \notin DOMAIN last.props /\ "y" \notin DOMAIN last.props

\* the extents the anchor fractions refer to: (2r, 2r) for a circle, else (width, height)
Extents(o) ==
    IF o.type = "CIRCLE" THEN [x |-> RMul(R(2), NumOr0(o.radius)), y |-> RMul(R(2), NumOr0(o.radius))]
    ELSE [x |-> NumOr0(o.width), y |-> NumOr0(o.height)]

\* a vector turned counter-clockwise by an angle of whole quarter turns
Turned(v, q) ==
    CASE QuarterOf(q) = 0 -> v
      [] QuarterOf(q) = 1 -> [x |-> RSub(R(0), v.y), y |-> v.x]
      [] QuarterOf(q) = 2 -> [x |-> RSub(R(0), v.x), y |-> RSub(R(0), v.y)]
      [] QuarterOf(q) = 3 -> [x |-> v.y, y |-> RSub(R(0), v.x)]

\* (newAnchor - oldAnchor) times the extents, scaled by the cached scale and turned by
\* the cached rotation
Compensation(o, newAnchor) ==
    Turned([x |-> RMul(RMul(RSub(newAnchor.x, o.anchor.x), Extents(o).x), o.scale),
            y |-> RMul(RMul(RSub(newAnchor.y, o.anchor.y), Extents(o).y), o.scale)],
           o.rotation)

\* C26: update with an anchor and neither x nor y appends one UPDATE action whose end
\* value also holds x and y = the cached position + the compensating delta, and the
\* cached position becomes that; with x or y given, the end value is the given
\* properties and nothing is added.
C26_AnchorCompensation ==
    AnchorUpdate =>
        /\ Len(actions) = Len(pre.actions) + 1
        /\ Appended.type = "UPDATE"
        /\ Appended.endValue.anchor = last.props.anchor
        /\ currentObjectStates[last.id].anchor = last.props.anchor
        /\ IF NoPosition
           THEN /\ DOMAIN Appended.endValue = DOMAIN last.props \cup {"x", "y"}
                /\ Appended.endValue.x = RAdd(Cached.x, Compensation(Cached, last.props.anchor).x)
                /\ Appended.endValue.y = RAdd(Cached.y, Compensation(Cached, last.props.anchor).y)
                /\ currentObjectStates[last.id].x = Appended.endValue.x
                /\ currentObjectStates[last.id].y = Appended.endValue.y
           ELSE /\ Appended.endValue = last.props
                /\ "x" \notin DOMAIN last.props => currentObjectStates[last.id].x = Cached.x
                /\ "y" \notin DOMAIN last.props => currentObjectStates[last.id].y = Cached.y

\* an anchor-only update of a scaled and turned shape moved it along both axes
C26_Witness ==
    /\ AnchorUpdate /\ NoPosition
    /\ Cached.scale # R(1)
    /\ QuarterOf(Cached.rotation) = 1
    /\ Appended.endValue.x # Cached.x
    /\ Appended.endValue.y # Cached.y

\* ------------------------------------------------------------------------
\* Properties of the update of a point list
\* ------------------------------------------------------------------------
\* action k is an update of points between two lists of different lengths that has
\* started at t, on an object of the scene
Reshaping(k, t) ==
    /\ Acts[k].type = "UPDATE"
    /\ "points" \in DOMAIN Acts[k].endValue
    /\ IsArray(Acts[k].startValue.points) /\ IsArray(Acts[k].endValue.points)
    /\ Len(Acts[k].startValue.points) # Len(Acts[k].endValue.points)
    /\ Acts[k].startTime <= t
    /\ Acts[k].objectId \in DOMAIN LocalScene

\* no action applied after action k at t writes the points of its object
LastOnPoints(k, t) ==
    \A j \in 1..Len(Acts) :
        (After(j, k) /\ Acts[j].startTime <= t /\ Acts[j].objectId = Acts[k].objectId)
            => "points" \notin WrittenKeys(Acts[j])

\* the shorter of two lengths
Shorter(a, b) == CHOOSE n \in {a, b} : n <= a /\ n <= b

\* the rendered list has the shorter length and point i lies at the eased share p
\* between point i of the start and point i of the end
PairwiseBetween(shown, s, e, p) ==
    /\ Len(shown) = Shorter(Len(s), Len(e))
    /\ \A i \in 1..Len(shown) :
           /\ shown[i].x = RAdd(s[i].x, RMul(RSub(e[i].x, s[i].x), p))
           /\ shown[i].y = RAdd(s[i].y, RMul(RSub(e[i].y, s[i].y), p))

\* C27: for a generic update of the points key whose start and end lists have
\* different lengths, rendering does not fail and yields a point list whose length is
\* the shorter of the two, each point interpolated pairwise with easedProgress.
C27_PointsOfShorterLength ==
    frames # << >> =>
        \A k \in 1..Len(Acts) :
            (Reshaping(k, Frame.time) /\ LastOnPoints(k, Frame.time)) =>
                /\ ~renderRaises(getTimeline(pre), Frame.time)
                /\ PairwiseBetween(LocalScene[Acts[k].objectId].points,
                                   Acts[k].startValue.points, Acts[k].endValue.points,
                                   ExpectedEased(Acts[k], ExpectedRaw(Acts[k], Frame.time)))
                /\ Frame.objects[Acts[k].objectId].points = LocalScene[Acts[k].objectId].points

\* an answer halfway through a reshape from two points to four
C27_Witness ==
    /\ frames # << >>
    /\ \E k \in 1..Len(Acts) :
           /\ Reshaping(k, Frame.time) /\ LastOnPoints(k, Frame.time)
           /\ Len(Acts[k].startValue.points) = 2
           /\ Len(Acts[k].endValue.points) = 4
           /\ Frame.time = Acts[k].startTime + 1
           /\ Len(Frame.objects[Acts[k].objectId].points) = 2

\* ------------------------------------------------------------------------
\* Properties of the lifetime of objects
\* ------------------------------------------------------------------------
\* every id the object map held before the last builder call is still in it
IdsStay == DOMAIN pre.initialObjects \subseteq DOMAIN initialObjects

\* C28: objects are never destroyed: a registered id stays in the object map, and for a
\* timeline built by the builder renderSceneAtTime returns exactly one entry per id of
\* the object map at every query time.
C28_OneEntryPerObject ==
    /\ IdsStay
    /\ frames # << >> => DOMAIN Frame.objects = DOMAIN initialObjects

\* ------------------------------------------------------------------------
\* Properties of compile
\* ------------------------------------------------------------------------
\* the scripts whose run raises
RaisingScripts == {k \in 1..Len(EvalScripts) : Contexts[k].err}

\* the step is a compile of script k
CompileOf(k) == RunAndKeep(k)

\* the installed timeline with its duration, the render state with the time it was
\* asked for, and the count of queries
Installed == <<currentTime, actions, initialObjects, frames, steps>>

\* C29: no partial timeline is installed: when the script raises in compile the error
\* is recorded and the installed timeline, duration, current time and render state stay
\* as they were; a timeline is installed only after the whole script ran without error.
C29_NoPartialTimeline ==
    [][/\ \A k \in RaisingScripts : CompileOf(k) => (threw' /\ Installed' = Installed)
       /\ <<currentTime, actions, initialObjects>>' # <<currentTime, actions, initialObjects>> =>
              \E k \in (1..Len(EvalScripts)) \ RaisingScripts :
                  /\ last'.tasks = EvalScripts[k]
                  /\ actions' = Contexts[k].actions
                  /\ initialObjects' = Contexts[k].initialObjects
                  /\ currentTime' = Contexts[k].currentTime]_vars

\* a compile has raised while a timeline with actions was installed and queried
C29_Witness ==
    /\ threw
    /\ last.op = "compile"
    /\ Len(frames) > 1
    /\ Len(actions) > 0
    /\ RaisingScripts # {}

\* ------------------------------------------------------------------------
\* Properties of the current-state cache
\* ------------------------------------------------------------------------
\* the objects without a parent, in the cache of the builder that made the timeline
Parentless ==
    {i \in DOMAIN pre.currentObjectStates \cap DOMAIN LocalScene :
        pre.currentObjectStates[i].parentId = NoId}

\* the properties of object i that some action of the timeline writes
WrittenOn(i) == UNION {WrittenKeys(Acts[k]) : k \in {j \in 1..Len(Acts) : Acts[j].objectId = i}}

\* C30: cache coherence: for every parentless object and every property written by
\* some action, the value in the builder's current-state cache equals the local value
\* renderSceneAtTime yields at any t >= the end of all actions.
C30_CacheCoherence ==
    (frames # << >> /\ AllEnded(Frame.time)) =>
        \A i \in Parentless : \A key \in WrittenOn(i) :
            pre.currentObjectStates[i][key] = LocalScene[i][key]

\* ------------------------------------------------------------------------
\* Properties of group on what is drawn
\* ------------------------------------------------------------------------
\* group was called on a list of distinct existing ids
GroupedDistinct == Grouped /\ Len(last.arg) = Cardinality(Members)

\* the times the drawing is compared at: the start and the end of the timeline so far
CompareTimes == {0, pre.currentTime}

\* C31: group preserves what is drawn: for any builder state and any list of distinct
\* existing ids, group(ids) leaves unchanged the world position renderSceneAtTime
\* yields for every member at every time, also for members moved by earlier actions,
\* members that already have a parent, and calls that pass x or y in props.
C31_GroupPreservesDrawing ==
    GroupedDistinct =>
        \A i \in Members : \A t \in CompareTimes : SameWorldPosition(Builder, pre, i, t)

\* ------------------------------------------------------------------------
\* Properties of rotate with the direction 'SHORT'
\* ------------------------------------------------------------------------
\* half a turn
HalfTurn == RDiv(PI2, R(2))

\* two angles are at most half a turn apart
WithinHalfTurn(a, b) == RLe(RSub(a, b), HalfTurn) /\ RLe(RSub(b, a), HalfTurn)

\* C32: rotate with direction 'SHORT' resolves the shortest turn: the stored end value
\* is congruent to the requested angle modulo whole turns and differs from the cached
\* start rotation by at most half a turn.
C32_ShortestTurn ==
    Rotated("SHORT") =>
        /\ WholeTurnsApart(Appended.endValue, Requested)
        /\ WithinHalfTurn(Appended.endValue, RotateStart)

\* ------------------------------------------------------------------------
\* Properties of the initial-object map
\* ------------------------------------------------------------------------
RECURSIVE OpsOf(_)
RECURSIVE OpsOfTasks(_)

\* the operations a callback calls on its builder, those of playTogether tasks included
OpsOf(script) ==
    IF Len(script) = 0 THEN {}
    ELSE {Head(script).op}
             \cup (IF Head(script).op = "playTogether" THEN OpsOfTasks(Head(script).tasks) ELSE {})
             \cup OpsOf(Tail(script))

OpsOfTasks(tasks) ==
    IF Len(tasks) = 0 THEN {} ELSE OpsOf(Head(tasks)) \cup OpsOfTasks(Tail(tasks))

\* the operations that write the initial-object map
InitialWriters == CreationOps \cup {"group", "ungroup", "addScene"}

\* the verbs that leave the current-state cache alone
CacheKeepers == {"wiggle", "pulse", "shake"}

\* C33: mutation verbs never touch the initial-object map: after any verb (update and
\* its wrappers, moveTo, arc, rotate, count, typeWriter, wiggle, pulse, shake, glow)
\* every entry of initialObjects is unchanged; only creation operations, group, ungroup
\* and addScene modify it; wiggle, pulse and shake also leave the current-state cache
\* unchanged.
C33_InitialsUntouched ==
    /\ last.op \in MutationVerbs => initialObjects = pre.initialObjects
    /\ OpsOf(<<last>>) \cap InitialWriters = {} => initialObjects = pre.initialObjects
    /\ last.op \in CacheKeepers => currentObjectStates = pre.currentObjectStates

\* a playTogether of verbs, a wiggle among them, that appended actions and changed the
\* cache of an object the initial-object map holds
C33_Witness ==
    /\ Joined
    /\ "wiggle" \in OpsOf(<<last>>)
    /\ OpsOf(<<last>>) \cap InitialWriters = {}
    /\ Len(actions) >= Len(pre.actions) + 3
    /\ \E i \in DOMAIN pre.initialObjects :
           currentObjectStates[i] # pre.currentObjectStates[i]

\* ------------------------------------------------------------------------
\* Properties of the nested builder of addScene
\* ------------------------------------------------------------------------
\* the builder addScene makes for the scene function, before the function runs
FreshBuilder == NewVideoContext(pre.nextId + 1)

\* a builder with clock 0 and nothing in its maps and in its action list
Pristine(b) ==
    /\ b.currentTime = 0
    /\ b.actions = << >>
    /\ b.initialObjects = << >>
    /\ b.currentObjectStates = << >>

\* C34: sub-scene isolation: the nested builder used by addScene starts with clock 0
\* and empty maps, operations performed on it do not change the outer builder's
\* clock, and the outer clock after addScene returns equals the outer clock before
\* the call.
C34_SubSceneIsolation ==
    last.op = "addScene" =>
        /\ Pristine(FreshBuilder)
        /\ NestedBuilder.currentTime = ClockAdvance(last.tasks) \/ NestedBuilder.err
        /\ currentTime = pre.currentTime

\* a scene function that moved the clock of its builder ran at an outer clock past 0
C34_Witness ==
    /\ Embedded
    /\ pre.currentTime > 0
    /\ NestedBuilder.currentTime > 0
    /\ NestedBuilder.currentTime # pre.currentTime
    /\ Len(NestedBuilder.actions) > 0

\* ------------------------------------------------------------------------
\* Properties of the virtual clock
\* ------------------------------------------------------------------------
\* the last top-level operation completed
Completed == last.op # "new" /\ ~threw

\* the actions the last call appended
AppendedRange == (Len(pre.actions) + 1)..Len(actions)

\* C35: with only non-negative durations passed to the builder, the virtual clock
\* never decreases across a completed top-level operation (creation, verb, wait,
\* playTogether, addScene, group, ungroup, nextPage), and every action in the list has
\* startTime >= 0 and duration >= 0.
C35_ClockNeverDecreases ==
    /\ Completed => currentTime >= pre.currentTime
    /\ \A k \in 1..Len(actions) : actions[k].startTime >= 0 /\ actions[k].duration >= 0

\* a playTogether at a clock past 0 whose tasks ended at different clocks: the clock
\* went back to the start for a later task and ended past an action of a shorter one
C35_Witness ==
    /\ Joined
    /\ pre.currentTime > 0
    /\ currentTime > pre.currentTime
    /\ Len(last.tasks) >= 2
    /\ \E k \in AppendedRange :
           /\ actions[k].startTime = pre.currentTime
           /\ actions[k].startTime + actions[k].duration < currentTime
    /\ \E k \in AppendedRange : actions[k].startTime > pre.currentTime

\* ------------------------------------------------------------------------
\* Properties of nextPage
\* ------------------------------------------------------------------------
\* the objects whose cached opacity was > 0 when the last call was made
Visible == {i \in DOMAIN pre.currentObjectStates : RLt(R(0), pre.currentObjectStates[i].opacity)}

\* the actions the last call appended for object i
AppendedFor(i) == {k \in AppendedRange : actions[k].objectId = i}

\* action k is the fade of its object to opacity 0, begun at the clock of the call
FadeFrom(k, s, d) ==
    /\ actions[k].type = "UPDATE"
    /\ actions[k].startTime = s
    /\ actions[k].duration = d
    /\ actions[k].endValue = [opacity |-> R(0)]
    /\ actions[k].startValue = [opacity |-> pre.currentObjectStates[actions[k].objectId].opacity]

\* C36: after nextPage(d) with d >= 0 called at clock s, every object whose cached
\* opacity was > 0 has cached opacity 0, exactly one fade action per such object was
\* appended and all of them have startTime s, objects with cached opacity <= 0 get no
\* action, and the clock is s + d if at least one object was visible and s otherwise.
C36_NextPageFadesVisible ==
    last.op = "nextPage" =>
        /\ ~threw
        /\ \A i \in Visible : currentObjectStates[i].opacity = R(0)
        /\ \A i \in Visible : Cardinality(AppendedFor(i)) = 1
        /\ \A i \in DOMAIN pre.currentObjectStates \ Visible :
               AppendedFor(i) = {} /\ currentObjectStates[i] = pre.currentObjectStates[i]
        /\ \A k \in AppendedRange :
               actions[k].objectId \in Visible /\ FadeFrom(k, pre.currentTime, last.d)
        /\ SubSeq(actions, 1, Len(pre.actions)) = pre.actions
        /\ currentTime = IF Visible = {} THEN pre.currentTime ELSE pre.currentTime + last.d

\* nextPage with a duration, at a clock past 0, on two visible objects of different
\* opacity and one that had been faded out
C36_Witness ==
    /\ last.op = "nextPage"
    /\ last.d > 0
    /\ pre.currentTime > 0
    /\ Cardinality(Visible) >= 2
    /\ \E i \in Visible, j \in Visible :
           pre.currentObjectStates[i].opacity # pre.currentObjectStates[j].opacity
    /\ DOMAIN pre.currentObjectStates \ Visible # {}

\* ------------------------------------------------------------------------
\* Properties of resolveHierarchy on arbitrary parent references
\* ------------------------------------------------------------------------
RECURSIVE EndsAtRoot(_, _, _)
\* following parentId from i reaches a parentless object within the given hops
EndsAtRoot(objects, i, hops) ==
    IF i \notin DOMAIN objects THEN FALSE
    ELSE IF objects[i].parentId = NoId THEN TRUE
    ELSE IF hops = 0 THEN FALSE
    ELSE EndsAtRoot(objects, objects[i].parentId, hops - 1)

\* the objects whose ancestor chain ends at a parentless root
Rooted(objects) ==
    {i \in DOMAIN objects : EndsAtRoot(objects, i, Cardinality(DOMAIN objects))}

\* no id occurs twice in a sequence
NoRepeat(seq) == \A j \in 1..Len(seq), k \in 1..Len(seq) : j # k => seq[j] # seq[k]

\* the answer holds exactly the rooted objects, each visited once
RootedOnce ==
    /\ DOMAIN Frame.objects = Rooted(initialObjects)
    /\ NoRepeat(Frame.visits)
    /\ {Frame.visits[k] : k \in 1..Len(Frame.visits)} = Rooted(initialObjects)

\* C37: resolveHierarchy terminates on every finite object map, maps with a parent
\* cycle or a parent id that names no object included, visits no object more than
\* once, and outputs exactly the objects whose ancestor chain ends at a parentless
\* root: objects on or below a cycle or below a missing parent are left out.
C37_ResolveTerminates ==
    /\ (last.op = "load") ~> (frames # << >>)
    /\ [](frames # << >> => RootedOnce)

\* an answer for a map with two objects on a cycle, a third below the cycle and a root
C37_Witness ==
    /\ frames # << >>
    /\ "visits" \in DOMAIN Frame
    /\ \E a \in DOMAIN initialObjects, b \in DOMAIN initialObjects, c \in DOMAIN initialObjects :
           /\ a # b /\ c # a /\ c # b
           /\ initialObjects[a].parentId = b
           /\ initialObjects[b].parentId = a
           /\ initialObjects[c].parentId = a
           /\ {a, b, c} \cap DOMAIN Frame.objects = {}
    /\ Cardinality(DOMAIN Frame.objects) = 1

\* ------------------------------------------------------------------------
\* Properties of the Euler decomposition
\* ------------------------------------------------------------------------
\* angles have been extracted from the matrix of the oriented object
Decomposed == last.op = "extractEuler"

\* the Y angle of the oriented object is +90 or -90 degrees modulo whole turns
GimbalLock == QuarterOf(initialObjects[1].rotationY) \in {1, 3}

\* the matrix built from the extracted angles
Rebuilt(euler) == createRotationMatrix(euler.x, euler.y, euler.z)

\* C38: for every matrix M that createRotationMatrix makes from angles that are
\* multiples of 90 degrees, createRotationMatrix of extractEuler(M) is M again;
\* at gimbal lock (Y angle +90 or -90 degrees) the extracted X angle is 0 and the
\* same holds.
C38_EulerRoundTrip ==
    Decomposed =>
        /\ Rebuilt(Frame.euler) = Frame.matrix
        /\ GimbalLock => Frame.euler.x = R(0)

\* a decomposition at gimbal lock of an object also turned about X and about Z,
\* where the extracted Z angle is not the object's
C38_Witness ==
    /\ Decomposed
    /\ GimbalLock
    /\ QuarterOf(initialObjects[1].rotationX) = 1
    /\ QuarterOf(initialObjects[1].rotation) = 2
    /\ Frame.euler.x = R(0)
    /\ QuarterOf(Frame.euler.z) # 2

\* ------------------------------------------------------------------------
\* Properties of the transport
\* ------------------------------------------------------------------------
\* the time shown lies on the timeline
InsideTimeline == 0 <= player.currentTime /\ player.currentTime <= player.duration

\* a frame that reaches or passes the end stops at the end (a compile that fails
\* leaves last as it was and shows its error)
FrameStopsAtEnd ==
    (/\ last'.op = "animate"
     /\ threw' = threw
     /\ player.requestRef # NoFrame
     /\ player.previousTimeRef
     /\ player.currentTime + last'.d >= player.duration)
        => player'.currentTime = player.duration /\ ~player'.isPlaying

====
